---- MODULE Spec2Model ----
(***************************************************************************)
(* The simulation engine of elephant (src/elephant/simulation.py) over a   *)
(* PostgreSQL store with READ COMMITTED transactions.  Every HTTP request  *)
(* is a process with a connection of its own (connection_dependency,       *)
(* src/elephant/database.py): its statements are buffered in tx[p] until   *)
(* COMMIT, SELECT ... FOR UPDATE takes the row lock of the run, and the    *)
(* connection's close ends whatever transaction is still open.             *)
(* Indices are 0-based as in the code; At(s, i) reads a Python list.       *)
(* Beside it stand the measured-data side's cron job (src/elephant/cron.py)*)
(* and TimeRangeFilter (src/elephant/utils/time_range_filter.py), each     *)
(* with a specification of its own, and with them the request that calls   *)
(* run_cron while the cron job is at work and the loop of the cron service *)
(* with its shutdown signal.                                               *)
(***************************************************************************)
EXTENDS Integers, Sequences, FiniteSets, Bags, TLC

\* ---------------------------------------------------------------- bounds
NumProcs == 2
MaxRuns == 1
MaxLen == 2
MaxThreshold == 2
MaxClock == 3
\* the length of the runs replayed under the strictly increasing clock
ClockLen == 3
\* the number of runs created where runs are told apart
TwoRuns == 2

\* the longest list handed to TimeRangeFilter and the latest time of a point
MaxPoints == 3
MaxTime == 2

\* the most sources configured, the iterations of run_cron followed, and the
\* latest time on the wall clock
MaxSources == 2
MaxIterations == 2
MaxNow == 2
\* the longest config.cron.interval_seconds of the service
MaxInterval == 2

Procs == 1..NumProcs
\* the ids a client may name: those create hands out and a fabricated one
RunIds == 1..(MaxRuns + 1)
\* grid intensity readings a client may send
Values == {5, 10}

\* Python's None and an int held in an "int | None" slot
None == <<>>
Some(n) == <<n>>
IsNone(x) == x = None
Val(x) == x[1]

\* the thresholds a client may send: None or a number of reads
Thresholds == {None} \cup {Some(n) : n \in 0..MaxThreshold}

\* the entries of a create payload: a bare number, a 2-element pair, or a
\* list/tuple of another length
Entries ==
    [kind : {"scalar"}, items : {<<v>> : v \in Values}]
      \cup [kind : {"pair"}, items : {<<v, t>> : v \in Values, t \in Thresholds}]
      \cup [kind : {"pair"}, items : {<<v, None, None>> : v \in Values}]

SeqsUpTo(S, n) == UNION {[1..k -> S] : k \in 0..n}
\* the payloads a client sends: up to MaxLen entries of any shape; the engine
\* never looks into a reading, so the readings alternate and the answer of a
\* call tells the slot it was read from
Payloads ==
    {values \in SeqsUpTo(Entries, MaxLen) :
        \A i \in 1..Len(values) :
            values[i].items[1] = (IF i % 2 = 1 THEN 5 ELSE 10)}

At(s, i) == s[i + 1]
SetAt(s, i, v) == [s EXCEPT ![i + 1] = v]

\* ------------------------------------------------------------------ state
VARIABLES
    simulation_runs,   \* committed table: simulation_id -> row
    simulation_calls,  \* committed table, in insertion order
    row_lock,          \* simulation_id -> process holding FOR UPDATE, 0 if free
    next_uuid,         \* the next value uuid.uuid4() yields
    clock,             \* what the time provider yields next
    ticking,           \* TRUE: strictly increasing clock; FALSE: a fixed time
    pc,                \* per request: where its handler stands
    op,                \* per request: the operation it runs
    sid,               \* per request: the simulation_id it names
    local,             \* per request: the handler's local variables
    tx,                \* per request: the uncommitted writes of its transaction
    result,            \* per request: what the engine call returned or raised
    snap,              \* history: per request, the run as committed when it locked it
    created,           \* history: simulation_id -> call_counts stored by create
    reads              \* history: simulation_id -> slot -> committed counting reads

\* the measured-data side: a call of TimeRangeFilter
\* (src/elephant/utils/time_range_filter.py); a data point is known by its
\* position in `data`, which holds its time
VARIABLES
    data,              \* the list handed to the filter: the time of each point
    start_time,        \* start of the requested range
    end_time,          \* end of the requested range
    results,           \* the list the filter returned: positions in `data`
    called             \* the method that returned `results`, "none" before

filterVars == <<data, start_time, end_time, results, called>>

\* the cron job (src/elephant/cron.py) and the tables it works on
VARIABLES
    sources,           \* config.cron.sources
    carbon,            \* committed table carbon: a bag of rows (no key is declared)
    last_cron_run,     \* committed table last_cron_run: source -> last_run
    now,               \* the wall clock
    cron,              \* run_cron: where it stands, its arguments and locals
    calls_made,        \* history: per source, the provider calls of this iteration
    commits,           \* history: the commits of this iteration
    update,            \* run_cron as called by a request with update=true
    shutdown_event,    \* threading.Event of the service: is it set
    service            \* the service loop: where it stands

cronVars == <<sources, carbon, last_cron_run, now, cron, calls_made, commits,
              update, shutdown_event, service>>
measuredVars == <<filterVars, cronVars>>

storeVars == <<simulation_runs, simulation_calls>>
procVars == <<pc, op, sid, local, tx, result, snap>>
simulationVars == <<simulation_runs, simulation_calls, row_lock, next_uuid, clock,
                    ticking, pc, op, sid, local, tx, result, snap, created, reads>>
vars == <<simulationVars, measuredVars>>

NoLocal == [values |-> <<>>, calls |-> <<>>, current_index |-> 0,
            new_index |-> 0, should_advance |-> FALSE, now |-> 0, value |-> 0]
NoTx == [runs |-> <<>>, calls |-> <<>>, open |-> FALSE]
NoResult == [outcome |-> "none", detail |-> "", value |-> 0, rows |-> <<>>,
             raised_at |-> "none", rolled_back |-> FALSE]
NoSnap == [run |-> <<>>, calls |-> <<>>]

\* no filter call is under way
InitFilterIdle ==
    /\ data = <<>>
    /\ start_time = 0
    /\ end_time = 0
    /\ results = <<>>
    /\ called = "none"

NoCron == [pc |-> "idle", iteration |-> 0, i |-> 0, specific_region |-> None,
           specific_provider |-> None, providers |-> {}]

NoUpdate == [pc |-> "idle", requests |-> 0, i |-> 0, specific_region |-> None,
             specific_provider |-> None, providers |-> {}, inserted |-> EmptyBag]
NoService == [pc |-> "off", iterations |-> 0, interval_seconds |-> 0, waited |-> 0]

\* no source is configured, run_cron has not been called and the service is
\* not running
InitCronIdle ==
    /\ sources = <<>>
    /\ carbon = EmptyBag
    /\ last_cron_run = <<>>
    /\ now = 0
    /\ cron = NoCron
    /\ calls_made = <<>>
    /\ commits = 0
    /\ update = NoUpdate
    /\ shutdown_event = FALSE
    /\ service = NoService

InitMeasuredIdle == InitFilterIdle /\ InitCronIdle

\* the simulation tables are empty and no request is under way
InitSimulationIdle ==
    /\ simulation_runs = <<>>
    /\ simulation_calls = <<>>
    /\ row_lock = [r \in RunIds |-> 0]
    /\ next_uuid = 1
    /\ clock = 0
    /\ ticking = FALSE
    /\ pc = [p \in Procs |-> "idle"]
    /\ op = [p \in Procs |-> "none"]
    /\ sid = [p \in Procs |-> 0]
    /\ local = [p \in Procs |-> NoLocal]
    /\ tx = [p \in Procs |-> NoTx]
    /\ result = [p \in Procs |-> NoResult]
    /\ snap = [p \in Procs |-> NoSnap]
    /\ created = <<>>
    /\ reads = <<>>

Init ==
    /\ InitMeasuredIdle
    /\ InitSimulationIdle

\* ------------------------------------------------------- store primitives
\* self._time_provider(): the injected clock
TimeProvider == clock
CanReadClock == ~ticking \/ clock < MaxClock
ClockRead == clock' = IF ticking THEN clock + 1 ELSE clock

\* the rows of simulation_calls of one run, in insertion order
RECURSIVE SelectCalls(_, _)
SelectCalls(calls, id) ==
    IF calls = <<>> THEN <<>>
    ELSE IF Head(calls).simulation_id = id
         THEN <<Head(calls)>> \o SelectCalls(Tail(calls), id)
         ELSE SelectCalls(Tail(calls), id)

CallRow(id, called_at, carbon_intensity, idx) ==
    [simulation_id |-> id, called_at |-> called_at,
     carbon_intensity |-> carbon_intensity, idx |-> idx]

Unlock(p) == [r \in RunIds |-> IF row_lock[r] = p THEN 0 ELSE row_lock[r]]

\* faulty variant: a committed call record takes the place of the records its
\* run had
CommitReplacesRecords(p) ==
    /\ simulation_runs' = tx[p].runs @@ simulation_runs
    /\ simulation_calls' =
          IF tx[p].calls = <<>> THEN simulation_calls
          ELSE SelectSeq(simulation_calls,
                         LAMBDA r : r.simulation_id # sid[p]) \o tx[p].calls
    /\ row_lock' = Unlock(p)
    /\ tx' = [tx EXCEPT ![p] = NoTx]

\* conn.commit(): the buffered writes become visible together, locks are released
Commit(p) ==
    /\ simulation_runs' = tx[p].runs @@ simulation_runs
    /\ simulation_calls' = simulation_calls \o tx[p].calls
    /\ row_lock' = Unlock(p)
    /\ tx' = [tx EXCEPT ![p] = NoTx]

\* faulty variant: the UPDATE or INSERT of the run outlives the rollback
RollbackPartial(p) ==
    /\ simulation_runs' = tx[p].runs @@ simulation_runs
    /\ simulation_calls' = simulation_calls
    /\ row_lock' = Unlock(p)
    /\ tx' = [tx EXCEPT ![p] = NoTx]

\* conn.rollback(): the buffered writes are dropped, locks are released
Rollback(p) ==
    /\ UNCHANGED storeVars
    /\ row_lock' = Unlock(p)
    /\ tx' = [tx EXCEPT ![p] = NoTx]

Raise(p, outcome) ==
    /\ pc' = [pc EXCEPT ![p] = "done"]
    /\ result' = [result EXCEPT ![p] =
           [NoResult EXCEPT !.outcome = outcome, !.raised_at = pc[p]]]
    /\ local' = [local EXCEPT ![p] = NoLocal]
    /\ snap' = [snap EXCEPT ![p] = NoSnap]

\* faulty variant: the except clause re-raises without conn.rollback()
ExceptRaiseOnly(p, outcome) ==
    /\ UNCHANGED <<storeVars, row_lock, tx>>
    /\ Raise(p, outcome)

\* except Exception: conn.rollback(); raise (lines 119-121, 177-179, 214-216):
\* the exception raised inside the try block leaves the engine after the
\* rollback
ExceptRollback(p, outcome) ==
    /\ Rollback(p)
    /\ pc' = [pc EXCEPT ![p] = "done"]
    /\ result' = [result EXCEPT ![p] =
           [NoResult EXCEPT !.outcome = outcome, !.raised_at = pc[p],
                            !.rolled_back = TRUE]]
    /\ local' = [local EXCEPT ![p] = NoLocal]
    /\ snap' = [snap EXCEPT ![p] = NoSnap]

\* raise ValueError(...): the error with the check that failed
RaiseValueError(p, outcome, detail) ==
    /\ pc' = [pc EXCEPT ![p] = "done"]
    /\ result' = [result EXCEPT ![p] =
           [NoResult EXCEPT !.outcome = outcome, !.detail = detail,
                            !.raised_at = pc[p]]]
    /\ local' = [local EXCEPT ![p] = NoLocal]
    /\ snap' = [snap EXCEPT ![p] = NoSnap]

Return(p, value) ==
    /\ pc' = [pc EXCEPT ![p] = "done"]
    /\ result' = [result EXCEPT ![p] = [NoResult EXCEPT !.outcome = "ok", !.value = value]]
    /\ local' = [local EXCEPT ![p] = NoLocal]
    /\ snap' = [snap EXCEPT ![p] = NoSnap]

\* ----------------------------------------------------------------- create
\* faulty variant: lines 51-52 missing, a pair may have any number of items
SplitOkAnyArity(values) == TRUE

SplitOk(values) ==
    \A i \in 1..Len(values) :
        values[i].kind = "pair" => Len(values[i].items) = 2

SplitValues(values) == [i \in 1..Len(values) |-> values[i].items[1]]

\* faulty variant: line 57 missing, bare numbers add no call count
SplitCallsPairsOnly(values) ==
    LET pairs == SelectSeq(values, LAMBDA e : e.kind = "pair")
    IN [i \in 1..Len(pairs) |-> pairs[i].items[2]]

\* faulty variant: the creation record uses up one call of slot 0
SplitCallsConsumed(values) ==
    [i \in 1..Len(values) |->
        IF values[i].kind = "pair" /\ ~IsNone(values[i].items[2])
        THEN IF i = 1 THEN Some(Val(values[i].items[2]) - 1) ELSE values[i].items[2]
        ELSE None]

SplitCalls(values) ==
    [i \in 1..Len(values) |->
        IF values[i].kind = "pair" THEN values[i].items[2] ELSE None]

\* create, lines 92-99: the clock is read first, then the payload is validated
\* outside the try block and the id is drawn
Create(p, values) ==
    /\ CanReadClock
    /\ ClockRead
    /\ op' = [op EXCEPT ![p] = "create"]
    /\ IF values = <<>>
       THEN /\ RaiseValueError(p, "InvalidInput", "no values")
            /\ UNCHANGED <<sid, next_uuid>>
       ELSE IF ~SplitOk(values)
       THEN /\ RaiseValueError(p, "InvalidInput", "pair arity")
            /\ UNCHANGED <<sid, next_uuid>>
       ELSE /\ pc' = [pc EXCEPT ![p] = "create_insert_run"]
            /\ sid' = [sid EXCEPT ![p] = next_uuid]
            /\ next_uuid' = next_uuid + 1
            /\ local' = [local EXCEPT ![p] =
                   [NoLocal EXCEPT !.values = SplitValues(values),
                                   !.calls = SplitCalls(values),
                                   !.now = TimeProvider]]
            /\ UNCHANGED <<result, snap>>
    /\ UNCHANGED <<storeVars, row_lock, ticking, measuredVars, tx, created, reads>>

\* simulation_store.create(values, conn) called as it stands
CreateCall(p, values) ==
    /\ pc[p] = "idle"
    /\ Create(p, values)

IsPair(entry) == entry.kind = "pair"

\* faulty variant: app.py 118-119 missing, the shapes of the entries may differ
ValidateArityOnly(values) ==
    IF \E i \in 1..Len(values) : IsPair(values[i]) /\ Len(values[i].items) # 2
    THEN "pair arity"
    ELSE "ok"

\* _validate_uniform_carbon_values (app.py 106-126): the check that fails, if any
ValidateUniformCarbonValues(values) ==
    LET has_pairs == \E i \in 1..Len(values) : IsPair(values[i])
        has_scalars == \E i \in 1..Len(values) : ~IsPair(values[i])
    IN IF has_pairs /\ has_scalars
       THEN "mixed shapes"
       ELSE IF has_pairs /\ \E i \in 1..Len(values) : Len(values[i].items) # 2
       THEN "pair arity"
       ELSE "ok"

\* SimulationCreateRequest (app.py 97-126): min_length = 1, then the validator
ValidateRequest(values) ==
    IF Len(values) < 1 THEN "min_length" ELSE ValidateUniformCarbonValues(values)

\* POST /simulation (app.py 305-315): the body is validated into a
\* SimulationCreateRequest; a body that makes none is answered with the
\* validation error and create_simulation never runs, any other is handed to
\* create
CreateRequest(p, values) ==
    /\ pc[p] = "idle"
    /\ IF ValidateRequest(values) # "ok"
       THEN /\ op' = [op EXCEPT ![p] = "create_simulation"]
            /\ RaiseValueError(p, "ValidationError", ValidateRequest(values))
            /\ UNCHANGED <<storeVars, row_lock, next_uuid, clock, ticking, measuredVars, sid, tx,
                           created, reads>>
       ELSE Create(p, values)

\* faulty variant: the run is committed by its own INSERT
CreateInsertRunAutocommit(p) ==
    /\ pc[p] = "create_insert_run"
    /\ simulation_runs' = (sid[p] :> [grid_values |-> local[p].values,
                                      calls |-> local[p].calls,
                                      current_index |-> 0]) @@ simulation_runs
    /\ tx' = [tx EXCEPT ![p].open = TRUE]
    /\ pc' = [pc EXCEPT ![p] = "create_insert_call"]
    /\ UNCHANGED <<simulation_calls, row_lock, next_uuid, clock, ticking, measuredVars, op, sid,
                   local, result, snap, created, reads>>

\* create, lines 103-109: INSERT INTO simulation_runs
CreateInsertRun(p) ==
    /\ pc[p] = "create_insert_run"
    /\ tx' = [tx EXCEPT ![p] =
           [@ EXCEPT !.open = TRUE,
                     !.runs = sid[p] :> [grid_values |-> local[p].values,
                                         calls |-> local[p].calls,
                                         current_index |-> 0]]]
    /\ pc' = [pc EXCEPT ![p] = "create_insert_call"]
    /\ UNCHANGED <<storeVars, row_lock, next_uuid, clock, ticking, measuredVars, op, sid, local,
                   result, snap, created, reads>>

\* create, lines 110-116: INSERT INTO simulation_calls
CreateInsertCall(p) ==
    /\ pc[p] = "create_insert_call"
    /\ tx' = [tx EXCEPT ![p].calls =
           Append(@, CallRow(sid[p], local[p].now, At(local[p].values, 0), 0))]
    /\ pc' = [pc EXCEPT ![p] = "create_commit"]
    /\ UNCHANGED <<storeVars, row_lock, next_uuid, clock, ticking, measuredVars, op, sid, local,
                   result, snap, created, reads>>

\* create, lines 118-123: commit and return the id
CreateCommit(p) ==
    /\ pc[p] = "create_commit"
    /\ Commit(p)
    /\ Return(p, sid[p])
    /\ created' = (sid[p] :> local[p].calls) @@ created
    /\ reads' = (sid[p] :> [i \in 1..Len(local[p].values) |-> 0]) @@ reads
    /\ UNCHANGED <<next_uuid, clock, ticking, measuredVars, op, sid>>

\* ------------------------------------------------------------- _fetch_run
\* _normalize_calls: the stored list cut or padded with None to `length`
NormalizeCalls(calls, length) ==
    [i \in 1..length |-> IF i <= Len(calls) THEN calls[i] ELSE None]

\* _fetch_run: the row of the run as the engine sees it
FetchRun(id) ==
    LET row == simulation_runs[id] IN
    [values |-> row.grid_values,
     calls |-> NormalizeCalls(row.calls, Len(row.grid_values)),
     current_index |-> row.current_index]

\* faulty variant: a plain SELECT, which takes and awaits no row lock
ForUpdateSkipped(p, id) == row_lock' = row_lock

\* faulty variant: a lock on the table, awaited while any run is held
ForUpdateTableLock(p, id) ==
    /\ \A r \in RunIds : row_lock[r] = 0
    /\ row_lock' = [row_lock EXCEPT ![id] = p]

\* SELECT ... FOR UPDATE: waits until no other transaction holds the row, then
\* holds it until the transaction ends
ForUpdate(p, id) ==
    /\ row_lock[id] = 0
    /\ row_lock' = [row_lock EXCEPT ![id] = p]

\* what the request saw committed at the moment it locked the run
Snapshot(id) ==
    [run |-> <<simulation_runs[id]>>, calls |-> SelectCalls(simulation_calls, id)]

\* ---------------------------------------------------------- current_value
\* faulty variant: the cursor never moves to the last slot
ShouldAdvanceNotToLast(calls, current_index, n) ==
    LET remaining_calls == At(calls, current_index) IN
    /\ ~IsNone(remaining_calls)
    /\ Val(remaining_calls) >= 0
    /\ Val(remaining_calls) - 1 <= 0
    /\ current_index + 2 < n

\* faulty variant: the cursor moves only once the count is below zero
ShouldAdvanceLate(calls, current_index, n) ==
    LET remaining_calls == At(calls, current_index) IN
    /\ ~IsNone(remaining_calls)
    /\ Val(remaining_calls) >= 0
    /\ Val(remaining_calls) - 1 < 0
    /\ current_index + 1 < n

\* faulty variant: a missing call count is taken for a count of 0
ShouldAdvanceNoneAsZero(calls, current_index, n) ==
    LET remaining_calls == At(calls, current_index) IN
    /\ IsNone(remaining_calls) \/ (Val(remaining_calls) >= 0 /\ Val(remaining_calls) - 1 <= 0)
    /\ current_index + 1 < n

\* faulty variant: a call count of 0 is taken for an exhausted one
ShouldAdvancePositiveOnly(calls, current_index, n) ==
    LET remaining_calls == At(calls, current_index) IN
    /\ ~IsNone(remaining_calls)
    /\ Val(remaining_calls) > 0
    /\ Val(remaining_calls) - 1 <= 0
    /\ current_index + 1 < n

\* lines 144-149: does this read move the cursor
ShouldAdvance(calls, current_index, n) ==
    LET remaining_calls == At(calls, current_index) IN
    /\ ~IsNone(remaining_calls)
    /\ Val(remaining_calls) >= 0
    /\ Val(remaining_calls) - 1 <= 0
    /\ current_index + 1 < n

\* faulty variant: the read is counted on every slot that has a count
CountDownEverySlot(calls, current_index, n) ==
    [i \in 1..Len(calls) |->
        IF ~IsNone(calls[i]) /\ Val(calls[i]) >= 0
        THEN Some(Val(calls[i]) - 1)
        ELSE calls[i]]

\* faulty variant: line 145 adds the read to the count
CountDownCountsUp(calls, current_index, n) ==
    LET remaining_calls == At(calls, current_index) IN
    IF ~IsNone(remaining_calls) /\ Val(remaining_calls) >= 0
    THEN SetAt(calls, current_index, Some(Val(remaining_calls) + 1))
    ELSE calls

\* faulty variant: the slot an auto-advance leaves is pinned to -1 as well
CountDownPinsLeft(calls, current_index, n) ==
    LET remaining_calls == At(calls, current_index) IN
    IF ~IsNone(remaining_calls) /\ Val(remaining_calls) >= 0
    THEN IF Val(remaining_calls) - 1 <= 0
         THEN SetAt(calls, current_index, Some(-1))
         ELSE SetAt(calls, current_index, Some(Val(remaining_calls) - 1))
    ELSE calls

\* faulty variant: line 151 stores 0 for the exhausted last slot
CountDownPinsZero(calls, current_index, n) ==
    LET remaining_calls == At(calls, current_index) IN
    IF ~IsNone(remaining_calls) /\ Val(remaining_calls) >= 0
    THEN LET new_remaining == Val(remaining_calls) - 1 IN
         IF new_remaining <= 0 /\ current_index + 1 < n
         THEN SetAt(calls, current_index, Some(new_remaining))
         ELSE IF new_remaining <= 0
              THEN SetAt(calls, current_index, Some(0))
              ELSE SetAt(calls, current_index, Some(new_remaining))
    ELSE calls

\* faulty variant: lines 150-151 missing, the last slot keeps its count
CountDownNoPin(calls, current_index, n) ==
    LET remaining_calls == At(calls, current_index) IN
    IF ~IsNone(remaining_calls) /\ Val(remaining_calls) >= 0
    THEN SetAt(calls, current_index, Some(Val(remaining_calls) - 1))
    ELSE calls

\* lines 140-151: the call counts after this read
CountDown(calls, current_index, n) ==
    LET remaining_calls == At(calls, current_index) IN
    IF ~IsNone(remaining_calls) /\ Val(remaining_calls) >= 0
    THEN LET new_remaining == Val(remaining_calls) - 1 IN
         IF new_remaining <= 0 /\ current_index + 1 < n
         THEN SetAt(calls, current_index, Some(new_remaining))
         ELSE IF new_remaining <= 0
              THEN SetAt(calls, current_index, Some(-1))
              ELSE SetAt(calls, current_index, Some(new_remaining))
    ELSE calls

\* faulty variant: the cursor moves on every read
NewIndexAlways(current_index, should_advance) == current_index + 1

\* line 153
NewIndex(current_index, should_advance) ==
    IF should_advance THEN current_index + 1 ELSE current_index

\* faulty variant: the value of the slot the cursor moved to
CurrentValuePost(values, current_index, new_index) == At(values, new_index)

\* lines 139 and 176: the value the call answers with
CurrentValue(values, current_index, new_index) == At(values, current_index)

CurrentValueCall(p, id) ==
    /\ pc[p] = "idle"
    /\ pc' = [pc EXCEPT ![p] = "cv_fetch"]
    /\ op' = [op EXCEPT ![p] = "current_value"]
    /\ sid' = [sid EXCEPT ![p] = id]
    /\ UNCHANGED <<storeVars, row_lock, next_uuid, clock, ticking, measuredVars, local, tx,
                   result, snap, created, reads>>

\* lines 130-153: fetch the run under the row lock and work out the new state
CurrentValueFetch(p) ==
    /\ pc[p] = "cv_fetch"
    /\ IF sid[p] \notin DOMAIN simulation_runs
       THEN /\ ExceptRollback(p, "NotFound")
       ELSE LET run == FetchRun(sid[p])
                n == Len(run.values)
                should_advance == ShouldAdvance(run.calls, run.current_index, n)
                new_index == NewIndex(run.current_index, should_advance)
            IN IF run.current_index >= n
               THEN \* line 137 indexes past the list: IndexError, caught at 177
                    /\ row_lock[sid[p]] = 0
                    /\ ExceptRollback(p, "IndexError")
               ELSE /\ ForUpdate(p, sid[p])
                    /\ UNCHANGED storeVars
                    /\ tx' = [tx EXCEPT ![p].open = TRUE]
                    /\ snap' = [snap EXCEPT ![p] = Snapshot(sid[p])]
                    /\ local' = [local EXCEPT ![p] =
                           [NoLocal EXCEPT
                              !.values = run.values,
                              !.calls = CountDown(run.calls, run.current_index, n),
                              !.current_index = run.current_index,
                              !.new_index = new_index,
                              !.should_advance = should_advance,
                              !.value = CurrentValue(run.values, run.current_index,
                                                     new_index)]]
                    /\ pc' = [pc EXCEPT ![p] = "cv_update"]
                    /\ UNCHANGED result
    /\ UNCHANGED <<next_uuid, clock, ticking, measuredVars, op, sid, created, reads>>

\* faulty variant: the UPDATE has no WHERE clause and rewrites every run
UpdateRunEveryRun(p, new_index, calls) ==
    tx' = [tx EXCEPT ![p].runs =
           [id \in DOMAIN simulation_runs |->
               [simulation_runs[id] EXCEPT !.current_index = new_index,
                                           !.calls = calls]]]

\* faulty variant: the UPDATE also rewrites grid_values, the slots the cursor
\* has left cleared
UpdateRunClearsLeft(p, new_index, calls) ==
    tx' = [tx EXCEPT ![p].runs =
           sid[p] :> [simulation_runs[sid[p]] EXCEPT
                         !.current_index = new_index,
                         !.calls = calls,
                         !.grid_values = [i \in 1..Len(@) |->
                                             IF i <= new_index THEN 0 ELSE @[i]]]]

\* UPDATE simulation_runs SET current_index = %s, calls = %s WHERE simulation_id = %s
UpdateRun(p, new_index, calls) ==
    tx' = [tx EXCEPT ![p].runs =
           sid[p] :> [simulation_runs[sid[p]] EXCEPT !.current_index = new_index,
                                                     !.calls = calls]]

\* faulty variant: every read goes on to write a call record
CurrentValueUpdateAlwaysInsert(p) ==
    /\ pc[p] = "cv_update"
    /\ UpdateRun(p, local[p].new_index, local[p].calls)
    /\ pc' = [pc EXCEPT ![p] = "cv_insert"]
    /\ UNCHANGED <<storeVars, row_lock, next_uuid, clock, ticking, measuredVars, op, sid, local,
                   result, snap, created, reads>>

\* lines 155-163
CurrentValueUpdate(p) ==
    /\ pc[p] = "cv_update"
    /\ UpdateRun(p, local[p].new_index, local[p].calls)
    /\ pc' = [pc EXCEPT ![p] =
           IF local[p].should_advance THEN "cv_insert" ELSE "cv_commit"]
    /\ UNCHANGED <<storeVars, row_lock, next_uuid, clock, ticking, measuredVars, op, sid, local,
                   result, snap, created, reads>>

\* faulty variant: an auto-advance that writes no call record
CurrentValueInsertSkipped(p) ==
    /\ pc[p] = "cv_insert"
    /\ pc' = [pc EXCEPT ![p] = "cv_commit"]
    /\ UNCHANGED <<storeVars, row_lock, next_uuid, clock, ticking, measuredVars, op, sid, local,
                   tx, result, snap, created, reads>>

\* lines 165-173: the call record of the slot the cursor moves to
CurrentValueInsert(p) ==
    /\ pc[p] = "cv_insert"
    /\ CanReadClock
    /\ ClockRead
    /\ tx' = [tx EXCEPT ![p].calls =
           Append(@, CallRow(sid[p], TimeProvider,
                             At(local[p].values, local[p].new_index),
                             local[p].new_index))]
    /\ pc' = [pc EXCEPT ![p] = "cv_commit"]
    /\ UNCHANGED <<storeVars, row_lock, next_uuid, ticking, measuredVars, op, sid, local,
                   result, snap, created, reads>>

\* history: a read made on a slot that was created with a threshold and has a
\* next slot
Counted(id, current_index) ==
    /\ current_index + 1 < Len(created[id])
    /\ ~IsNone(At(created[id], current_index))

\* lines 175-176
CurrentValueCommit(p) ==
    /\ pc[p] = "cv_commit"
    /\ Commit(p)
    /\ Return(p, local[p].value)
    /\ reads' = IF Counted(sid[p], local[p].current_index)
                THEN [reads EXCEPT ![sid[p]][local[p].current_index + 1] = @ + 1]
                ELSE reads
    /\ UNCHANGED <<next_uuid, clock, ticking, measuredVars, op, sid, created>>

\* ---------------------------------------------------------------- advance
\* faulty variant: off by one
AtLastIndexOffByOne(next_index, n) == next_index > n

\* line 190: is there no slot after the cursor
AtLastIndex(next_index, n) == next_index >= n

\* line 189
NextIndex(current_index) == current_index + 1

\* lines 183-184: the clock is read before the run is fetched
AdvanceCall(p, id) ==
    /\ pc[p] = "idle"
    /\ CanReadClock
    /\ ClockRead
    /\ pc' = [pc EXCEPT ![p] = "adv_fetch"]
    /\ op' = [op EXCEPT ![p] = "advance"]
    /\ sid' = [sid EXCEPT ![p] = id]
    /\ local' = [local EXCEPT ![p] = [NoLocal EXCEPT !.now = TimeProvider]]
    /\ UNCHANGED <<storeVars, row_lock, next_uuid, ticking, measuredVars, tx, result, snap,
                   created, reads>>

\* lines 187-193: fetch under the row lock; at the last index the call returns
\* from inside the try block, with neither commit nor rollback
AdvanceFetch(p) ==
    /\ pc[p] = "adv_fetch"
    /\ IF sid[p] \notin DOMAIN simulation_runs
       THEN /\ ExceptRollback(p, "NotFound")
       ELSE LET run == FetchRun(sid[p])
                n == Len(run.values)
                next_index == NextIndex(run.current_index)
            IN IF ~AtLastIndex(next_index, n) /\ next_index >= n
               THEN \* line 193 indexes past the list: IndexError, caught at 214
                    /\ row_lock[sid[p]] = 0
                    /\ ExceptRollback(p, "IndexError")
               ELSE /\ ForUpdate(p, sid[p])
                    /\ UNCHANGED storeVars
                    /\ tx' = [tx EXCEPT ![p].open = TRUE]
                    /\ IF AtLastIndex(next_index, n)
                       THEN Return(p, At(run.values, next_index - 1))
                       ELSE /\ snap' = [snap EXCEPT ![p] = Snapshot(sid[p])]
                            /\ local' = [local EXCEPT ![p] =
                                   [@ EXCEPT !.values = run.values,
                                             !.calls = run.calls,
                                             !.current_index = run.current_index,
                                             !.new_index = next_index,
                                             !.value = At(run.values, next_index)]]
                            /\ pc' = [pc EXCEPT ![p] = "adv_update"]
                            /\ UNCHANGED result
    /\ UNCHANGED <<next_uuid, clock, ticking, measuredVars, op, sid, created, reads>>

\* faulty variant: the UPDATE of advance marks the slot it leaves as used up
AdvanceUpdateConsumes(p) ==
    /\ pc[p] = "adv_update"
    /\ UpdateRun(p, local[p].new_index,
                 SetAt(local[p].calls, local[p].current_index, Some(0)))
    /\ pc' = [pc EXCEPT ![p] = "adv_insert"]
    /\ UNCHANGED <<storeVars, row_lock, next_uuid, clock, ticking, measuredVars, op, sid, local,
                   result, snap, created, reads>>

\* lines 196-203
AdvanceUpdate(p) ==
    /\ pc[p] = "adv_update"
    /\ UpdateRun(p, local[p].new_index, local[p].calls)
    /\ pc' = [pc EXCEPT ![p] = "adv_insert"]
    /\ UNCHANGED <<storeVars, row_lock, next_uuid, clock, ticking, measuredVars, op, sid, local,
                   result, snap, created, reads>>

\* faulty variant: the record of the slot the cursor leaves
AdvanceInsertStale(p) ==
    /\ pc[p] = "adv_insert"
    /\ tx' = [tx EXCEPT ![p].calls =
           Append(@, CallRow(sid[p], local[p].now,
                             At(local[p].values, local[p].current_index),
                             local[p].current_index))]
    /\ pc' = [pc EXCEPT ![p] = "adv_commit"]
    /\ UNCHANGED <<storeVars, row_lock, next_uuid, clock, ticking, measuredVars, op, sid, local,
                   result, snap, created, reads>>

\* lines 204-210
AdvanceInsert(p) ==
    /\ pc[p] = "adv_insert"
    /\ tx' = [tx EXCEPT ![p].calls =
           Append(@, CallRow(sid[p], local[p].now, local[p].value, local[p].new_index))]
    /\ pc' = [pc EXCEPT ![p] = "adv_commit"]
    /\ UNCHANGED <<storeVars, row_lock, next_uuid, clock, ticking, measuredVars, op, sid, local,
                   result, snap, created, reads>>

\* lines 212-213
AdvanceCommit(p) ==
    /\ pc[p] = "adv_commit"
    /\ Commit(p)
    /\ Return(p, local[p].value)
    /\ UNCHANGED <<next_uuid, clock, ticking, measuredVars, op, sid, created, reads>>

\* ------------------------------------------------------------------ stats
\* ORDER BY called_at: every order of the rows in which called_at never
\* decreases (rows of equal called_at come in any order)
OrderByCalledAt(rows) ==
    LET n == Len(rows)
        perms == {f \in [1..n -> 1..n] : \A i, j \in 1..n : i # j => f[i] # f[j]}
    IN {[i \in 1..n |-> rows[f[i]]] : f \in
           {g \in perms : \A i, j \in 1..n :
                i < j => rows[g[i]].called_at <= rows[g[j]].called_at}}

\* lines 235-243: what stats answers for each selected row
StatsRows(id, calls) ==
    [i \in 1..Len(calls) |->
        [provider |-> id, time |-> calls[i].called_at,
         carbon_intensity |-> calls[i].carbon_intensity, estimation |-> TRUE]]

StatsCall(p, id) ==
    /\ pc[p] = "idle"
    /\ pc' = [pc EXCEPT ![p] = "stats_fetch"]
    /\ op' = [op EXCEPT ![p] = "stats"]
    /\ sid' = [sid EXCEPT ![p] = id]
    /\ UNCHANGED <<storeVars, row_lock, next_uuid, clock, ticking, measuredVars, local, tx,
                   result, snap, created, reads>>

\* faulty variant: _fetch_run called with for_update=True
StatsFetchForUpdate(p) ==
    /\ pc[p] = "stats_fetch"
    /\ tx' = [tx EXCEPT ![p].open = TRUE]
    /\ IF sid[p] \notin DOMAIN simulation_runs
       THEN /\ Raise(p, "NotFound")
            /\ UNCHANGED row_lock
       ELSE /\ ForUpdate(p, sid[p])
            /\ pc' = [pc EXCEPT ![p] = "stats_select"]
            /\ UNCHANGED <<local, result, snap>>
    /\ UNCHANGED <<storeVars, next_uuid, clock, ticking, measuredVars, op, sid, created, reads>>

\* faulty variant: lines 78-79 missing, a run that is not found is no error
StatsFetchEmptyAnswer(p) ==
    /\ pc[p] = "stats_fetch"
    /\ tx' = [tx EXCEPT ![p].open = TRUE]
    /\ pc' = [pc EXCEPT ![p] = "stats_select"]
    /\ UNCHANGED <<storeVars, row_lock, next_uuid, clock, ticking, measuredVars, op, sid, local,
                   result, snap, created, reads>>

\* line 221: _fetch_run without FOR UPDATE, outside any try block
StatsFetch(p) ==
    /\ pc[p] = "stats_fetch"
    /\ tx' = [tx EXCEPT ![p].open = TRUE]
    /\ IF sid[p] \notin DOMAIN simulation_runs
       THEN Raise(p, "NotFound")
       ELSE /\ pc' = [pc EXCEPT ![p] = "stats_select"]
            /\ UNCHANGED <<local, result, snap>>
    /\ UNCHANGED <<storeVars, row_lock, next_uuid, clock, ticking, measuredVars, op, sid,
                   created, reads>>

\* lines 223-243: a second statement, reading what is committed by then
StatsSelect(p) ==
    /\ pc[p] = "stats_select"
    /\ \E calls \in OrderByCalledAt(SelectCalls(simulation_calls, sid[p])) :
          /\ pc' = [pc EXCEPT ![p] = "done"]
          /\ result' = [result EXCEPT ![p] =
                 [NoResult EXCEPT !.outcome = "ok", !.rows = StatsRows(sid[p], calls)]]
    /\ UNCHANGED <<storeVars, row_lock, next_uuid, clock, ticking, measuredVars, op, sid, local,
                   tx, snap, created, reads>>

\* ------------------------------------------------- failures and the caller
InTry(p) ==
    pc[p] \in {"create_insert_run", "create_insert_call", "create_commit",
               "cv_fetch", "cv_update", "cv_insert", "cv_commit",
               "adv_fetch", "adv_update", "adv_insert", "adv_commit"}

\* the statement a mutating call is about to run fails: except Exception:
\* conn.rollback(); raise
StoreFailure(p) ==
    /\ InTry(p)
    /\ ExceptRollback(p, "StoreFailure")
    /\ UNCHANGED <<next_uuid, clock, ticking, measuredVars, op, sid, created, reads>>

\* a statement of stats fails: nothing catches it
StatsFailure(p) ==
    /\ pc[p] \in {"stats_fetch", "stats_select"}
    /\ tx' = [tx EXCEPT ![p].open = TRUE]
    /\ Raise(p, "StoreFailure")
    /\ UNCHANGED <<storeVars, row_lock, next_uuid, clock, ticking, measuredVars, op, sid,
                   created, reads>>

\* the request ends and db_connection closes the connection: a transaction
\* still open is rolled back by the server and its locks are released
Close(p) ==
    /\ pc[p] = "done"
    /\ pc' = [pc EXCEPT ![p] = "idle"]
    /\ op' = [op EXCEPT ![p] = "none"]
    /\ sid' = [sid EXCEPT ![p] = 0]
    /\ result' = [result EXCEPT ![p] = NoResult]
    /\ Rollback(p)
    /\ UNCHANGED <<next_uuid, clock, ticking, measuredVars, local, snap, created, reads>>

Next ==
    \E p \in Procs :
        \/ \E values \in Payloads : next_uuid <= MaxRuns /\ CreateCall(p, values)
        \/ \E values \in Payloads : next_uuid <= MaxRuns /\ CreateRequest(p, values)
        \/ CreateInsertRun(p)
        \/ CreateInsertCall(p)
        \/ CreateCommit(p)
        \/ \E id \in RunIds : CurrentValueCall(p, id)
        \/ CurrentValueFetch(p)
        \/ CurrentValueUpdate(p)
        \/ CurrentValueInsert(p)
        \/ CurrentValueCommit(p)
        \/ \E id \in RunIds : AdvanceCall(p, id)
        \/ AdvanceFetch(p)
        \/ AdvanceUpdate(p)
        \/ AdvanceInsert(p)
        \/ AdvanceCommit(p)
        \/ \E id \in RunIds : StatsCall(p, id)
        \/ StatsFetch(p)
        \/ StatsSelect(p)
        \/ StoreFailure(p)
        \/ StatsFailure(p)
        \/ Close(p)

Spec == Init /\ [][Next]_vars

\* ------------------------------------------- a strictly increasing clock
\* The default time provider, datetime.now(timezone.utc) (line 28), taken as
\* strictly increasing: every read of it yields a later time.  Requests name
\* the ids that create has answered with, the payloads are ClockLen pairs
\* whose call count is null or 1.
ClockEntries ==
    [kind : {"pair"}, items : {<<v, t>> : v \in Values, t \in {None, Some(1)}}]
ClockPayloads ==
    {values \in [1..ClockLen -> ClockEntries] :
        \A i \in 1..ClockLen :
            values[i].items[1] = (IF i % 2 = 1 THEN 5 ELSE 10)}

InitClock ==
    /\ InitMeasuredIdle
    /\ simulation_runs = <<>>
    /\ simulation_calls = <<>>
    /\ row_lock = [r \in RunIds |-> 0]
    /\ next_uuid = 1
    /\ clock = 0
    /\ ticking = TRUE
    /\ pc = [p \in Procs |-> "idle"]
    /\ op = [p \in Procs |-> "none"]
    /\ sid = [p \in Procs |-> 0]
    /\ local = [p \in Procs |-> NoLocal]
    /\ tx = [p \in Procs |-> NoTx]
    /\ result = [p \in Procs |-> NoResult]
    /\ snap = [p \in Procs |-> NoSnap]
    /\ created = <<>>
    /\ reads = <<>>

NextClock ==
    \E p \in Procs :
        \/ \E values \in ClockPayloads : next_uuid <= MaxRuns /\ CreateCall(p, values)
        \/ CreateInsertRun(p)
        \/ CreateInsertCall(p)
        \/ CreateCommit(p)
        \/ \E id \in DOMAIN simulation_runs : CurrentValueCall(p, id)
        \/ CurrentValueFetch(p)
        \/ CurrentValueUpdate(p)
        \/ CurrentValueInsert(p)
        \/ CurrentValueCommit(p)
        \/ \E id \in DOMAIN simulation_runs : AdvanceCall(p, id)
        \/ AdvanceFetch(p)
        \/ AdvanceUpdate(p)
        \/ AdvanceInsert(p)
        \/ AdvanceCommit(p)
        \/ \E id \in DOMAIN simulation_runs : StatsCall(p, id)
        \/ StatsFetch(p)
        \/ StatsSelect(p)
        \/ StoreFailure(p)
        \/ StatsFailure(p)
        \/ Close(p)

SpecClock == InitClock /\ [][NextClock]_vars

\* ------------------------------------------------------- more than one run
\* TwoRuns runs of MaxLen slots, all bare numbers or all pairs with call
\* count 1 as the request model admits them (app.py 106-126), read and
\* advanced by requests that name the ids create has answered with; the
\* statements do not fail.
RunsEntries ==
    [kind : {"scalar"}, items : {<<5>>}]
      \cup [kind : {"pair"}, items : {<<5, Some(1)>>}]
RunsPayloads ==
    {values \in [1..MaxLen -> RunsEntries] :
        \A i \in 1..MaxLen : values[i].kind = values[1].kind}

\* the statements of the handler of p, its start and its end left out
HandlerStep(p) ==
    \/ CreateInsertRun(p)
    \/ CreateInsertCall(p)
    \/ CreateCommit(p)
    \/ CurrentValueFetch(p)
    \/ CurrentValueUpdate(p)
    \/ CurrentValueInsert(p)
    \/ CurrentValueCommit(p)
    \/ AdvanceFetch(p)
    \/ AdvanceUpdate(p)
    \/ AdvanceInsert(p)
    \/ AdvanceCommit(p)

NextRuns ==
    \E p \in Procs :
        \/ \E values \in RunsPayloads : next_uuid <= TwoRuns /\ CreateCall(p, values)
        \/ \E id \in DOMAIN simulation_runs : CurrentValueCall(p, id)
        \/ \E id \in DOMAIN simulation_runs : AdvanceCall(p, id)
        \/ HandlerStep(p)
        \/ Close(p)

SpecRuns == Init /\ [][NextRuns]_vars

\* ------------------------------------------------- reads that keep coming
\* One run of ClockLen slots, every slot but the last created with a call
\* count of 0..MaxThreshold, read again and again: no advance is called and
\* no statement fails.
LiveEntries == [kind : {"pair"}, items : {<<5, t>> : t \in Thresholds}]
LivePayloads ==
    {values \in [1..ClockLen -> LiveEntries] :
        \A i \in 1..(ClockLen - 1) : ~IsNone(values[i].items[2])}

NextLive ==
    \E p \in Procs :
        \/ \E values \in LivePayloads : next_uuid <= MaxRuns /\ CreateCall(p, values)
        \/ \E id \in DOMAIN simulation_runs : CurrentValueCall(p, id)
        \/ CreateInsertRun(p)
        \/ CreateInsertCall(p)
        \/ CreateCommit(p)
        \/ CurrentValueFetch(p)
        \/ CurrentValueUpdate(p)
        \/ CurrentValueInsert(p)
        \/ CurrentValueCommit(p)
        \/ Close(p)

\* a request that has been started is served to its end (its statements run
\* whenever they need not wait, the connection is closed afterwards), and
\* get-carbon keeps being requested
FairLive ==
    /\ \A p \in Procs : WF_vars(HandlerStep(p) \/ Close(p))
    /\ WF_vars(\E p \in Procs : \E id \in DOMAIN simulation_runs : CurrentValueCall(p, id))

SpecLive == Init /\ [][NextLive]_vars /\ FairLive

\* ----------------------------------------------------------- HTTP surface
\* faulty variant: SimulationNotFoundError, a KeyError, is not caught by the
\* endpoints and ends as the server error of an unhandled exception
StatusCodeNotFoundUncaught(operation, outcome) ==
    IF outcome = "ok" THEN 200
    ELSE IF outcome = "InvalidInput" /\ operation = "create" THEN 400
    ELSE IF outcome = "ValidationError" THEN 422
    ELSE 500

\* the status code the endpoint of `operation` answers with (app.py 305-357):
\* the engine's result is returned as it is, SimulationNotFoundError is
\* turned into 404 by get-carbon, next and stats, the ValueError of create
\* into 400 by POST /simulation; a body that makes no SimulationCreateRequest
\* is answered by the framework (422), and any other exception is unhandled
StatusCode(operation, outcome) ==
    IF outcome = "ok" THEN 200
    ELSE IF outcome = "NotFound" /\ operation \in {"current_value", "advance", "stats"}
    THEN 404
    ELSE IF outcome = "InvalidInput" /\ operation = "create" THEN 400
    ELSE IF outcome = "ValidationError" THEN 422
    ELSE 500

\* ------------------------------------------------------------------ reset
\* reset (lines 247-259), called on a connection of its own: both tables are
\* truncated in one transaction and the commit makes them empty together.
\* TRUNCATE takes the ACCESS EXCLUSIVE lock of the table, which it is granted
\* once no open transaction has read or written the tables; a request whose
\* statement would wait for the truncating transaction in turn is failed by
\* the server (StoreFailure) or sees the reset fail and change nothing.
Reset ==
    /\ \A p \in Procs : ~tx[p].open
    /\ simulation_calls' = <<>>
    /\ simulation_runs' = <<>>
    /\ created' = <<>>
    /\ reads' = <<>>
    /\ UNCHANGED <<row_lock, next_uuid, clock, ticking, measuredVars, pc, op, sid, local, tx,
                   result, snap>>

\* the requests of SpecRuns, whose statements may fail here, and resets
NextReset ==
    \/ NextRuns
    \/ \E p \in Procs : StoreFailure(p)
    \/ Reset

SpecReset == Init /\ [][NextReset]_vars

\* -------------------------------------------------------- TimeRangeFilter
\* times of data points; the ends of a range may also lie behind the last one
Times == 0..MaxTime
RangeTimes == 0..(MaxTime + 1)
DataLists == SeqsUpTo(Times, MaxPoints)

\* the points of a list in input order
Positions(points) == [i \in 1..Len(points) |-> i]

\* faulty variant: the end of the range is taken as inclusive
FilterStrictInclusiveEnd(points, start, end) ==
    SelectSeq(Positions(points),
              LAMBDA i : start <= points[i] /\ points[i] <= end)

\* filter_strict (lines 19-36): the loop appends every point in the range
FilterStrict(points, start, end) ==
    SelectSeq(Positions(points),
              LAMBDA i : start <= points[i] /\ points[i] < end)

\* one step of a stable sort by time: i goes behind the points that are not later
RECURSIVE InsertByTime(_, _, _)
InsertByTime(sorted, i, points) ==
    IF sorted = <<>> THEN <<i>>
    ELSE IF points[Head(sorted)] <= points[i]
         THEN <<Head(sorted)>> \o InsertByTime(Tail(sorted), i, points)
         ELSE <<i>> \o sorted

RECURSIVE SortFirst(_, _)
SortFirst(points, k) ==
    IF k = 0 THEN <<>> ELSE InsertByTime(SortFirst(points, k - 1), k, points)

\* faulty variant: line 60 missing, the list is scanned as it was handed in
SortedByTimeUnsorted(points) == Positions(points)

\* line 60: sorted(data, key=lambda x: x.time), which is stable
SortedByTime(points) == SortFirst(points, Len(points))

\* lines 64-69: the last point of the leading run of points before start
RECURSIVE BeforeStart(_, _, _, _)
BeforeStart(sorted, points, start, before_start) ==
    IF sorted = <<>> THEN before_start
    ELSE IF points[Head(sorted)] < start
         THEN BeforeStart(Tail(sorted), points, start, Some(Head(sorted)))
         ELSE before_start

\* lines 81-84: the first point at or after end
RECURSIVE AfterEnd(_, _, _)
AfterEnd(sorted, points, end) ==
    IF sorted = <<>> THEN None
    ELSE IF points[Head(sorted)] >= end
         THEN Some(Head(sorted))
         ELSE AfterEnd(Tail(sorted), points, end)

\* filter_with_interpolation (lines 38-86); a data point is an object without
\* __bool__ or __len__, so `if before_start:` asks whether one was found
FilterWithInterpolation(points, start, end) ==
    IF points = <<>> THEN <<>>
    ELSE LET sorted_data == SortedByTime(points)
             before_start == BeforeStart(sorted_data, points, start, None)
             within == SelectSeq(sorted_data,
                                 LAMBDA i : start <= points[i] /\ points[i] < end)
             after_end == AfterEnd(sorted_data, points, end)
         IN before_start \o within \o after_end

FilterStrictCall ==
    /\ results' = FilterStrict(data, start_time, end_time)
    /\ called' = "filter_strict"
    /\ UNCHANGED <<data, start_time, end_time, simulationVars, cronVars>>

FilterWithInterpolationCall ==
    /\ results' = FilterWithInterpolation(data, start_time, end_time)
    /\ called' = "filter_with_interpolation"
    /\ UNCHANGED <<data, start_time, end_time, simulationVars, cronVars>>

\* the filter is handed any list of at most MaxPoints points and any two times
InitFilter ==
    /\ data \in DataLists
    /\ start_time \in RangeTimes
    /\ end_time \in RangeTimes
    /\ results = <<>>
    /\ called = "none"
    /\ InitCronIdle
    /\ InitSimulationIdle

NextFilter ==
    \/ FilterStrictCall
    \/ FilterWithInterpolationCall

SpecFilter == InitFilter /\ [][NextFilter]_vars

\* ------------------------------------------------------------------- cron
\* regions and providers as the configuration may spell them
Regions == {"de", "FR"}
ProviderNames == {"EnergyCharts", "nosuch"}
\* str.upper() and str.lower() on these
Upper(str) ==
    CASE str \in {"de", "DE"} -> "DE"
      [] str \in {"fr", "FR"} -> "FR"
      [] OTHER -> str
Lower(str) ==
    CASE str \in {"de", "DE"} -> "de"
      [] str \in {"fr", "FR"} -> "fr"
      [] str \in {"EnergyCharts", "energycharts"} -> "energycharts"
      [] OTHER -> str
\* the providers with an implementation (providers/helpers.py 15-20)
ProviderFactories == {"energycharts"}

\* f"{source.provider.lower()}_{source.region.lower()}"
ProviderDbName(source) == <<Lower(source.provider), Lower(source.region)>>

\* the update interval a source may be configured with, 0 for none
UpdateIntervals == {0, 2}
Sources == [region : Regions, provider : ProviderNames, only_get_current : BOOLEAN,
            update_iterval : UpdateIntervals]

\* what a provider may answer with: nothing, or records of which one may lack a key
Record(t) == [time |-> t, carbon_intensity |-> 100 + t, keys_ok |-> TRUE]
BadRecord == [time |-> 1, carbon_intensity |-> 101, keys_ok |-> FALSE]
PastAnswers == {None, <<Record(1)>>, <<Record(1), Record(2)>>, <<Record(1), BadRecord>>}
FutureAnswers == {None, <<Record(2)>>}
\* `answer or []`
OrEmpty(answer) == IF IsNone(answer) THEN <<>> ELSE answer

NoCalls == [get_current |-> 0, get_historical |-> 0, get_future |-> 0]

\* get_providers (providers/helpers.py 23-46): one provider per source name
GetProviders == {ProviderDbName(sources[k]) : k \in 1..Len(sources)}

\* run_cron, line 33: the providers are built, which fails for a source whose
\* provider has no implementation, before the connection is opened
RunCron(specific_region, specific_provider) ==
    /\ cron.pc \in {"idle", "returned", "raised", "no_provider"}
    /\ cron.iteration < MaxIterations
    /\ \E later \in now..MaxNow : now' = later
    /\ calls_made' = [k \in 1..Len(sources) |-> NoCalls]
    /\ commits' = 0
    /\ cron' = [pc |-> IF \E k \in 1..Len(sources) :
                           Lower(sources[k].provider) \notin ProviderFactories
                       THEN "no_provider" ELSE "sources",
                iteration |-> cron.iteration + 1,
                i |-> 0,
                specific_region |-> specific_region,
                specific_provider |-> specific_provider,
                providers |-> GetProviders]
    /\ UNCHANGED <<sources, carbon, last_cron_run, update, shutdown_event, service,
                   filterVars, simulationVars>>

\* lines 41-51: is the source skipped
Skipped(source, specific_region, specific_provider, providers) ==
    \/ ~IsNone(specific_region) /\ Upper(Val(specific_region)) # Upper(source.region)
    \/ ~IsNone(specific_provider) /\ Lower(Val(specific_provider)) # Lower(source.provider)
    \/ ProviderDbName(source) \notin providers

\* faulty variant: the branches of line 60 the wrong way round
FetchCallsSwapped(source) ==
    IF source.only_get_current
    THEN [get_current |-> 0, get_historical |-> 1, get_future |-> 1]
    ELSE [get_current |-> 1, get_historical |-> 0, get_future |-> 0]

\* lines 60-65: the calls made to the provider of the source
FetchCalls(source) ==
    IF source.only_get_current
    THEN [get_current |-> 1, get_historical |-> 0, get_future |-> 0]
    ELSE [get_current |-> 0, get_historical |-> 1, get_future |-> 1]

\* lines 74-103: INSERT ... WHERE NOT EXISTS for each record in turn, seeing
\* the rows committed and those the transaction has inserted
RECURSIVE InsertData(_, _, _)
InsertData(table, records, source) ==
    IF records = <<>> THEN table
    ELSE LET d == Head(records)
             row == [time |-> d.time, region |-> Upper(source.region),
                     carbon_intensity |-> d.carbon_intensity,
                     provider |-> ProviderDbName(source)]
             exists == \E r \in BagToSet(table) : /\ r.time = row.time
                                                  /\ r.region = row.region
                                                  /\ r.provider = row.provider
         IN InsertData(IF exists THEN table ELSE table (+) SetToBag({row}),
                       Tail(records), source)

\* lines 36-113, the loop body for source i (0-based): skipped, or fetched and,
\* if there is data, inserted and committed; a record with other keys raises
\* ValueError, the connection is closed and what was inserted for the source
\* is lost
CronSource ==
    /\ cron.pc = "sources"
    /\ cron.i < Len(sources)
    /\ LET source == At(sources, cron.i) IN
       IF Skipped(source, cron.specific_region, cron.specific_provider, cron.providers)
       THEN /\ cron' = [cron EXCEPT !.i = @ + 1]
            /\ UNCHANGED <<carbon, calls_made, commits>>
       ELSE \E past_answer \in PastAnswers, future_answer \in FutureAnswers :
               LET past == OrEmpty(past_answer)
                   future == IF source.only_get_current THEN <<>>
                             ELSE OrEmpty(future_answer)
                   records == past \o future
               IN /\ calls_made' = SetAt(calls_made, cron.i, FetchCalls(source))
                  /\ IF records = <<>>
                     THEN /\ cron' = [cron EXCEPT !.i = @ + 1]
                          /\ UNCHANGED <<carbon, commits>>
                     ELSE IF \E k \in 1..Len(records) : ~records[k].keys_ok
                     THEN /\ cron' = [cron EXCEPT !.pc = "raised"]
                          /\ UNCHANGED <<carbon, commits>>
                     ELSE /\ carbon' = InsertData(carbon, records, source)
                          /\ commits' = commits + 1
                          /\ cron' = [cron EXCEPT !.i = @ + 1]
    /\ UNCHANGED <<sources, last_cron_run, now, update, shutdown_event, service,
                   filterVars, simulationVars>>

\* the loop is over and run_cron returns
CronReturn ==
    /\ cron.pc = "sources"
    /\ cron.i >= Len(sources)
    /\ cron' = [cron EXCEPT !.pc = "returned"]
    /\ UNCHANGED <<sources, carbon, last_cron_run, now, calls_made, commits,
                   update, shutdown_event, service, filterVars, simulationVars>>

\* the names of the sources that can run, and the tables of last runs at the start
SourceNames == {<<"energycharts", "de">>, <<"energycharts", "fr">>}
LastRuns == {<<>>} \cup {name :> t : name \in SourceNames, t \in 0..1}

\* up to MaxSources configured sources, a last_cron_run table with at most
\* one row, an empty carbon table
InitCron ==
    /\ sources \in SeqsUpTo(Sources, MaxSources)
    /\ carbon = EmptyBag
    /\ last_cron_run \in LastRuns
    /\ now = 1
    /\ cron = NoCron
    /\ calls_made = <<>>
    /\ commits = 0
    /\ update = NoUpdate
    /\ shutdown_event = FALSE
    /\ service = NoService
    /\ InitFilterIdle
    /\ InitSimulationIdle

NextCron ==
    \/ \E specific_region \in {None, Some("de"), Some("fr")},
          specific_provider \in {None, Some("energycharts")} :
          RunCron(specific_region, specific_provider)
    \/ CronSource
    \/ CronReturn

SpecCron == InitCron /\ [][NextCron]_vars

\* ------------------------------------------------ a request with update=true
\* _handle_update (app.py 149-158) runs run_cron(specific_region=region), with
\* specific_provider too if update names one, in the thread pool, on a
\* connection of its own and whatever the cron job is doing: the same loop,
\* here followed from the INSERTs of a source to their commit
UpdateRunCron(specific_region, specific_provider) ==
    /\ update.pc \in {"idle", "returned", "raised", "no_provider"}
    /\ update.requests < MaxIterations
    /\ update' = [pc |-> IF \E k \in 1..Len(sources) :
                             Lower(sources[k].provider) \notin ProviderFactories
                         THEN "no_provider" ELSE "sources",
                  requests |-> update.requests + 1,
                  i |-> 0,
                  specific_region |-> specific_region,
                  specific_provider |-> specific_provider,
                  providers |-> GetProviders,
                  inserted |-> EmptyBag]
    /\ UNCHANGED <<sources, carbon, last_cron_run, now, cron, calls_made, commits,
                   shutdown_event, service, filterVars, simulationVars>>

\* lines 36-103 for source i of the request: skipped, or fetched and its
\* records inserted, each INSERT seeing the rows committed by then and those
\* of its own transaction; the rows inserted wait for the commit
UpdateInsert ==
    /\ update.pc = "sources"
    /\ update.i < Len(sources)
    /\ LET source == At(sources, update.i) IN
       IF Skipped(source, update.specific_region, update.specific_provider,
                  update.providers)
       THEN update' = [update EXCEPT !.i = @ + 1]
       ELSE \E past_answer \in PastAnswers, future_answer \in FutureAnswers :
               LET past == OrEmpty(past_answer)
                   future == IF source.only_get_current THEN <<>>
                             ELSE OrEmpty(future_answer)
                   records == past \o future
               IN IF records = <<>>
                  THEN update' = [update EXCEPT !.i = @ + 1]
                  ELSE IF \E k \in 1..Len(records) : ~records[k].keys_ok
                  THEN update' = [update EXCEPT !.pc = "raised"]
                  ELSE update' = [update EXCEPT
                                     !.pc = "commit",
                                     !.inserted = InsertData(carbon, records, source)
                                                     (-) carbon]
    /\ UNCHANGED <<sources, carbon, last_cron_run, now, cron, calls_made, commits,
                   shutdown_event, service, filterVars, simulationVars>>

\* line 105 of the request: the rows it inserted for the source are committed
UpdateCommit ==
    /\ update.pc = "commit"
    /\ carbon' = carbon (+) update.inserted
    /\ update' = [update EXCEPT !.pc = "sources", !.i = @ + 1, !.inserted = EmptyBag]
    /\ UNCHANGED <<sources, last_cron_run, now, cron, calls_made, commits,
                   shutdown_event, service, filterVars, simulationVars>>

\* the loop of the request is over
UpdateReturn ==
    /\ update.pc = "sources"
    /\ update.i >= Len(sources)
    /\ update' = [update EXCEPT !.pc = "returned"]
    /\ UNCHANGED <<sources, carbon, last_cron_run, now, cron, calls_made, commits,
                   shutdown_event, service, filterVars, simulationVars>>

\* sources of the one provider that is implemented, without update interval
IngestSources == {source \in Sources : /\ source.provider = "EnergyCharts"
                                       /\ source.update_iterval = 0}

InitIngest ==
    /\ sources \in SeqsUpTo(IngestSources, MaxSources)
    /\ carbon = EmptyBag
    /\ last_cron_run = <<>>
    /\ now = 1
    /\ cron = NoCron
    /\ calls_made = <<>>
    /\ commits = 0
    /\ update = NoUpdate
    /\ shutdown_event = FALSE
    /\ service = NoService
    /\ InitFilterIdle
    /\ InitSimulationIdle

\* the cron job run again and again, and requests with update=true for a
\* region meanwhile
NextIngest ==
    \/ RunCron(None, None)
    \/ CronSource
    \/ CronReturn
    \/ \E specific_region \in {Some("DE"), Some("FR")},
          specific_provider \in {None, Some("energycharts")} :
          UpdateRunCron(specific_region, specific_provider)
    \/ UpdateInsert
    \/ UpdateCommit
    \/ UpdateReturn

SpecIngest == InitIngest /\ [][NextIngest]_vars

\* ------------------------------------------------------- the cron service
\* `python -m elephant.cron --service` (cron.py 127-134) once the handlers of
\* SIGINT and SIGTERM are installed: the loop tests shutdown_event, calls
\* run_cron() and waits interval_seconds in steps of one second.  A signal is
\* handled between any two steps of the main thread.
\* _request_shutdown (lines 17-20)
RequestShutdown ==
    /\ service.pc \in {"test", "run_cron", "wait"}
    /\ ~shutdown_event
    /\ shutdown_event' = TRUE
    /\ UNCHANGED <<sources, carbon, last_cron_run, now, cron, calls_made, commits,
                   update, service, filterVars, simulationVars>>

\* line 131: while not shutdown_event.is_set()
ServiceTest ==
    /\ service.pc = "test"
    /\ shutdown_event \/ cron.iteration < MaxIterations
    /\ service' = [service EXCEPT !.pc = IF shutdown_event THEN "exited" ELSE "run_cron"]
    /\ UNCHANGED <<sources, carbon, last_cron_run, now, cron, calls_made, commits,
                   update, shutdown_event, filterVars, simulationVars>>

\* line 132: run_cron() is called
ServiceRunCron ==
    /\ service.pc = "run_cron"
    /\ cron.iteration = service.iterations
    /\ RunCron(None, None)

\* line 132 is over: run_cron has returned and the wait of line 133 begins, or
\* it has raised and the exception ends the program
ServiceRunCronEnds ==
    /\ service.pc = "run_cron"
    /\ cron.iteration = service.iterations + 1
    /\ cron.pc \in {"returned", "raised", "no_provider"}
    /\ service' = [service EXCEPT
                      !.pc = IF cron.pc = "returned" THEN "wait" ELSE "crashed",
                      !.iterations = @ + 1,
                      !.waited = 0]
    /\ UNCHANGED <<sources, carbon, last_cron_run, now, cron, calls_made, commits,
                   update, shutdown_event, filterVars, simulationVars>>

\* faulty variant: time.sleep(1) in place of shutdown_event.wait(timeout=1)
WaitWithSignalCheckSleeps ==
    IF service.waited < service.interval_seconds
    THEN [service EXCEPT !.waited = @ + 1]
    ELSE [service EXCEPT !.pc = IF shutdown_event THEN "exited" ELSE "test"]

\* wait_with_signal_check (lines 23-28), one pass of its loop or its last
\* line: shutdown_event.wait(timeout=1) returns True at once when the event
\* is set, which breaks the service loop, and lets a second go by otherwise
WaitWithSignalCheck ==
    IF service.waited < service.interval_seconds
    THEN IF shutdown_event
         THEN [service EXCEPT !.pc = "exited"]
         ELSE [service EXCEPT !.waited = @ + 1]
    ELSE [service EXCEPT !.pc = IF shutdown_event THEN "exited" ELSE "test"]

\* lines 133-134
ServiceWait ==
    /\ service.pc = "wait"
    /\ service' = WaitWithSignalCheck
    /\ UNCHANGED <<sources, carbon, last_cron_run, now, cron, calls_made, commits,
                   update, shutdown_event, filterVars, simulationVars>>

InitService ==
    /\ sources \in SeqsUpTo(IngestSources, MaxSources)
    /\ carbon = EmptyBag
    /\ last_cron_run = <<>>
    /\ now = 1
    /\ cron = NoCron
    /\ calls_made = <<>>
    /\ commits = 0
    /\ update = NoUpdate
    /\ shutdown_event = FALSE
    /\ \E interval_seconds \in 0..MaxInterval :
          service = [NoService EXCEPT !.pc = "test",
                                      !.interval_seconds = interval_seconds]
    /\ InitFilterIdle
    /\ InitSimulationIdle

\* the steps of the main thread
ServiceStep ==
    \/ ServiceTest
    \/ ServiceRunCron
    \/ CronSource
    \/ CronReturn
    \/ ServiceRunCronEnds
    \/ ServiceWait

NextService ==
    \/ ServiceStep
    \/ RequestShutdown

\* the main thread keeps running: the providers and the store answer, and a
\* timed wait comes to its end
SpecService == InitService /\ [][NextService]_vars /\ WF_vars(ServiceStep)

\* ================================================================= claims
Row(id) == simulation_runs[id]
Cursor(id) == simulation_runs[id].current_index
LastIndex(id) == Len(simulation_runs[id].grid_values) - 1
Records(id) == SelectCalls(simulation_calls, id)
Finished(p, o) == pc[p] = "done" /\ op[p] = o /\ result[p].outcome = "ok"

\* C1: history completeness. In every reachable state the committed call
\* records of every run are exactly one record per index 0..cursor (cursor + 1
\* of them), and each record's value is values[index].
HistoryComplete ==
    \A id \in DOMAIN simulation_runs :
        LET recs == Records(id) IN
        /\ Len(recs) = Cursor(id) + 1
        /\ {recs[i].idx : i \in 1..Len(recs)} = 0..Cursor(id)
        /\ \A i \in 1..Len(recs) :
              recs[i].carbon_intensity = At(Row(id).grid_values, recs[i].idx)

\* C1 witness: a run created with threshold 1 on slot 0 whose single read
\* auto-advanced it, so that two records are committed
HistoryCompleteWitness ==
    \E id \in DOMAIN simulation_runs :
        /\ Cursor(id) = 1
        /\ At(created[id], 0) = Some(1)
        /\ At(reads[id], 0) = 1
        /\ Len(Records(id)) = 2

\* C2: every stored run has as many thresholds as values, at least one value,
\* and a cursor within 0..len(values)-1.
RunShape ==
    \A id \in DOMAIN simulation_runs :
        /\ Len(Row(id).calls) = Len(Row(id).grid_values)
        /\ Len(Row(id).grid_values) >= 1
        /\ 0 <= Cursor(id)
        /\ Cursor(id) <= LastIndex(id)

\* C2 witness: a two-value run moved to its last index by a finished advance
RunShapeWitness ==
    \E id \in DOMAIN simulation_runs : \E p \in Procs :
        /\ Len(Row(id).grid_values) = 2
        /\ Cursor(id) = LastIndex(id)
        /\ Finished(p, "advance") /\ sid[p] = id

\* C3: the cursor of a run never decreases, moves by at most one slot per
\* step, and stays at len(values)-1 once it is there; runs are never removed.
CursorMonotone ==
    [][\A id \in DOMAIN simulation_runs :
          /\ id \in DOMAIN simulation_runs'
          /\ simulation_runs'[id].current_index \in {Cursor(id), Cursor(id) + 1}
          /\ Cursor(id) = LastIndex(id) =>
                simulation_runs'[id].current_index = Cursor(id)]_vars

\* C3 witness: a counting read has finished on a run that stands at its last
\* index after an auto-advance
CursorMonotoneWitness ==
    \E id \in DOMAIN simulation_runs : \E p \in Procs :
        /\ LastIndex(id) >= 1
        /\ Cursor(id) = LastIndex(id)
        /\ At(reads[id], 0) >= 1
        /\ Finished(p, "current_value") /\ sid[p] = id
        /\ ~IsNone(At(Row(id).calls, Cursor(id)))
        /\ Val(At(Row(id).calls, Cursor(id))) = -1

Max(a, b) == IF a >= b THEN a ELSE b

\* a current_value call of p commits in this step
CommitsRead(p) == pc[p] = "cv_commit" /\ pc'[p] = "done" /\ result'[p].outcome = "ok"

\* C4 (as claimed): on a slot with threshold N >= 0 and a next slot, the read
\* that moves the cursor is exactly the Nth read made on that slot, and every
\* read made on the slot returns its value.
CountdownExactlyN ==
    [][\A p \in Procs :
          (CommitsRead(p) /\ Counted(sid[p], Cursor(sid[p]))) =>
              LET id == sid[p]
                  c == Cursor(id)
                  N == Val(At(created[id], c))
                  k == At(reads'[id], c)
              IN /\ result'[p].value = At(Row(id).grid_values, c)
                 /\ (simulation_runs'[id].current_index = c + 1) <=> (k = N)]_vars

\* C4 (amended): on a slot with threshold N >= 0 and a next slot, the read
\* that moves the cursor is exactly the max(N, 1)th read made on that slot (the
\* Nth for N >= 1, the first for N = 0), no read is made on the slot after it,
\* and every read made on the slot returns its value.
CountdownMaxN1 ==
    [][\A p \in Procs :
          (CommitsRead(p) /\ Counted(sid[p], Cursor(sid[p]))) =>
              LET id == sid[p]
                  c == Cursor(id)
                  N == Val(At(created[id], c))
                  k == At(reads'[id], c)
              IN /\ result'[p].value = At(Row(id).grid_values, c)
                 /\ k <= Max(N, 1)
                 /\ (simulation_runs'[id].current_index = c + 1) <=> (k = Max(N, 1))]_vars

\* C4 witness: a slot created with threshold 2 left by its second read, and no
\* advance was called (a single record per slot, the reads account for the move)
CountdownWitness ==
    \E id \in DOMAIN simulation_runs : \E p \in Procs :
        /\ At(created[id], 0) = Some(2)
        /\ At(reads[id], 0) = 2
        /\ Cursor(id) = 1
        /\ Finished(p, "current_value") /\ sid[p] = id

\* C5: a successful current_value call returns values[c], c being the cursor
\* as committed when the call locked the run, also when the call moves the cursor.
ReturnsPreAdvanceValue ==
    [][\A p \in Procs :
          CommitsRead(p) =>
              LET before == snap[p].run[1]
              IN result'[p].value = At(before.grid_values, before.current_index)]_vars

\* C5 witness: a read that auto-advanced between two different values has
\* returned the value of the slot it left
ReturnsPreAdvanceValueWitness ==
    \E id \in DOMAIN simulation_runs : \E p \in Procs :
        /\ Finished(p, "current_value") /\ sid[p] = id
        /\ At(created[id], 0) = Some(1)
        /\ At(reads[id], 0) = 1
        /\ Cursor(id) = 1
        /\ At(Row(id).grid_values, 0) # At(Row(id).grid_values, 1)
        /\ result[p].value = At(Row(id).grid_values, 0)

\* the request holds the run between its locking read and its commit
HoldsRun(p) ==
    pc[p] \in {"cv_update", "cv_insert", "cv_commit",
               "adv_update", "adv_insert", "adv_commit"}

\* C6: no lost update. No two calls are between their read of a run and their
\* commit at the same time; and after k reads have committed on a slot that has
\* a next slot and was created with counter c >= k, the slot's counter is
\* c - k, and the cursor has left the slot when k = c >= 1.
NoLostUpdate ==
    /\ \A p, q \in Procs :
          (p # q /\ HoldsRun(p) /\ HoldsRun(q)) => sid[p] # sid[q]
    /\ \A id \in DOMAIN simulation_runs :
          \A i \in 0..(LastIndex(id) - 1) :
              ~IsNone(At(created[id], i)) =>
                  LET c == Val(At(created[id], i))
                      k == At(reads[id], i)
                  IN k <= c =>
                        /\ At(Row(id).calls, i) = Some(c - k)
                        /\ (c >= 1 /\ k = c) => Cursor(id) > i

\* C6 witness: both requests have finished a read of the same run, whose first
\* slot was created with counter 2 and has been read twice
NoLostUpdateWitness ==
    \E id \in DOMAIN simulation_runs :
        /\ At(created[id], 0) = Some(2)
        /\ At(reads[id], 0) = 2
        /\ At(Row(id).calls, 0) = Some(0)
        /\ \A p \in 1..2 : Finished(p, "current_value") /\ sid[p] = id

\* the committed cursor of a run, -1 while the run is not in the store
CommittedCursor(runs, id) ==
    IF id \in DOMAIN runs THEN runs[id].current_index ELSE -1

\* a store failure strikes a mutating call of p in this step
FailsInTry(p) == InTry(p) /\ pc'[p] = "done" /\ result'[p].outcome = "StoreFailure"

\* C7: failure atomicity. A store failure anywhere inside create,
\* current_value or advance leaves the committed run and its call history as
\* they were before the call (no run and no record for a failed create), and
\* no step commits a cursor move or a new run without the matching call record
\* or a call record without the cursor move.
FailureAtomic ==
    [][/\ \A p \in Procs :
             FailsInTry(p) =>
                 LET id == sid[p] IN
                 IF op[p] = "create"
                 THEN /\ id \notin DOMAIN simulation_runs'
                      /\ SelectCalls(simulation_calls', id) = <<>>
                 ELSE IF HoldsRun(p)
                 THEN /\ simulation_runs'[id] = snap[p].run[1]
                      /\ SelectCalls(simulation_calls', id) = snap[p].calls
                 ELSE UNCHANGED storeVars
       /\ \A id \in RunIds :
             (CommittedCursor(simulation_runs', id) # CommittedCursor(simulation_runs, id))
                <=> (SelectCalls(simulation_calls', id) # Records(id))]_vars

\* C7 witness: an advance failed between its UPDATE and its INSERT, and the
\* run still stands on slot 0 with the creation record alone
FailureAtomicWitness ==
    \E id \in DOMAIN simulation_runs : \E p \in Procs :
        /\ pc[p] = "done" /\ op[p] = "advance" /\ sid[p] = id
        /\ result[p].outcome = "StoreFailure"
        /\ result[p].raised_at = "adv_insert"
        /\ LastIndex(id) = 1 /\ Cursor(id) = 0
        /\ Len(Records(id)) = 1

\* C8: create commits the run, with cursor 0, together with its first call
\* record (index 0, value values[0]): the step that makes a run visible makes
\* exactly that record visible with it, no committed state holds a run without
\* it, and a successful stats call never answers with an empty list.
CreateAtomic ==
    /\ [](/\ \A id \in DOMAIN simulation_runs :
                \E i \in 1..Len(simulation_calls) :
                    /\ simulation_calls[i].simulation_id = id
                    /\ simulation_calls[i].idx = 0
                    /\ simulation_calls[i].carbon_intensity = At(Row(id).grid_values, 0)
          /\ \A p \in Procs : Finished(p, "stats") => result[p].rows # <<>>)
    /\ [][\A id \in (DOMAIN simulation_runs') \ (DOMAIN simulation_runs) :
             LET recs == SelectCalls(simulation_calls', id) IN
             /\ simulation_runs'[id].current_index = 0
             /\ Len(recs) = 1
             /\ recs[1].idx = 0
             /\ recs[1].carbon_intensity = At(simulation_runs'[id].grid_values, 0)]_vars

\* C8 witness: one request has created a run and the other has read its stats
CreateAtomicWitness ==
    \E p, q \in Procs :
        /\ Finished(p, "create")
        /\ Finished(q, "stats") /\ sid[q] = result[p].value
        /\ Cursor(sid[q]) = 0
        /\ Len(result[q].rows) = 1

\* C9: an advance that finds the cursor c before the last index goes on to
\* commit, and its commit sets the cursor to c + 1 whatever the thresholds
\* are, appends exactly one call record (index c + 1, value values[c + 1]) and
\* returns values[c + 1].
AdvanceMoves ==
    [][\A p \in Procs :
          LET id == sid[p] IN
          /\ (pc[p] = "adv_fetch" /\ pc'[p] = "done" /\ id \in DOMAIN simulation_runs
                /\ Cursor(id) < LastIndex(id)) => result'[p].outcome = "StoreFailure"
          /\ (pc[p] = "adv_commit" /\ pc'[p] = "done" /\ result'[p].outcome = "ok") =>
                LET c == Cursor(id)
                    recs == SelectCalls(simulation_calls', id)
                IN /\ c < LastIndex(id)
                   /\ simulation_runs'[id].current_index = c + 1
                   /\ Len(recs) = Len(Records(id)) + 1
                   /\ SubSeq(recs, 1, Len(Records(id))) = Records(id)
                   /\ recs[Len(recs)].idx = c + 1
                   /\ recs[Len(recs)].carbon_intensity = At(Row(id).grid_values, c + 1)
                   /\ result'[p].value = At(Row(id).grid_values, c + 1)]_vars

\* C9 witness: an advance has finished on a run whose slot 0 was half-way
\* through its countdown of 2
AdvanceMovesWitness ==
    \E id \in DOMAIN simulation_runs : \E p \in Procs :
        /\ Finished(p, "advance") /\ sid[p] = id
        /\ At(created[id], 0) = Some(2)
        /\ At(reads[id], 0) = 1
        /\ Cursor(id) = 1
        /\ result[p].value = At(Row(id).grid_values, 1)

\* C10: an advance that finds the cursor at the last index returns
\* values[last] and changes neither the run nor the call history; a 1-element
\* run never has more than its creation record.
AdvanceAtLastIsNoOp ==
    /\ [](\A id \in DOMAIN simulation_runs :
             LastIndex(id) = 0 => Len(Records(id)) = 1)
    /\ [][\A p \in Procs :
             LET id == sid[p] IN
             (pc[p] = "adv_fetch" /\ pc'[p] # "adv_fetch" /\ id \in DOMAIN simulation_runs
                /\ Cursor(id) = LastIndex(id) /\ result'[p].outcome # "StoreFailure") =>
                   /\ pc'[p] = "done"
                   /\ result'[p].outcome = "ok"
                   /\ result'[p].value = At(Row(id).grid_values, LastIndex(id))
                   /\ UNCHANGED storeVars]_vars

\* C10 witness: an advance has returned on a 1-element run
AdvanceAtLastIsNoOpWitness ==
    \E id \in DOMAIN simulation_runs : \E p \in Procs :
        /\ Finished(p, "advance") /\ sid[p] = id
        /\ LastIndex(id) = 0
        /\ result[p].value = At(Row(id).grid_values, 0)
        /\ Len(Records(id)) = 1

\* a current_value call of p commits in this step on a run whose cursor stands
\* at the last index
CommitsTerminalRead(p) ==
    /\ CommitsRead(p)
    /\ Cursor(sid[p]) = LastIndex(sid[p])

\* C11: idempotent terminal state. On a run whose cursor is at the last
\* index, a current_value call that meets no store failure returns
\* values[last], leaves the cursor where it is and appends no call record,
\* whatever the threshold of the last slot is.
TerminalIdempotent ==
    [][\A p \in Procs :
          LET id == sid[p] IN
          /\ (pc[p] = "cv_fetch" /\ pc'[p] = "done" /\ id \in DOMAIN simulation_runs
                /\ Cursor(id) = LastIndex(id)) => result'[p].outcome = "StoreFailure"
          /\ CommitsTerminalRead(p) =>
                /\ result'[p].value = At(Row(id).grid_values, LastIndex(id))
                /\ simulation_runs'[id].current_index = Cursor(id)
                /\ SelectCalls(simulation_calls', id) = Records(id)]_vars

\* C11 witness: both requests have read a two-value run that an advance had
\* moved to its last slot, created with threshold 1, and both got values[1]
TerminalIdempotentWitness ==
    \E id \in DOMAIN simulation_runs :
        /\ LastIndex(id) = 1 /\ Cursor(id) = 1
        /\ IsNone(At(created[id], 0))
        /\ At(created[id], 1) = Some(1)
        /\ Len(Records(id)) = 2
        /\ \A p \in 1..2 :
              /\ Finished(p, "current_value") /\ sid[p] = id
              /\ result[p].value = At(Row(id).grid_values, 1)

\* C12 (as claimed): a current_value call on a run whose cursor is at the last
\* index leaves the cursor, every threshold counter and the call history as
\* they were.
TerminalReadNoSideEffect ==
    [][\A p \in Procs :
          CommitsTerminalRead(p) =>
              /\ simulation_runs'[sid[p]] = Row(sid[p])
              /\ SelectCalls(simulation_calls', sid[p]) = Records(sid[p])]_vars

\* C12 (amended): a current_value call on a run whose cursor is at the last
\* index leaves the cursor, the values, the counters of all other slots and
\* the call history as they were; the last slot's counter stays as it is when
\* it is absent or -1, and a counter n >= 0 becomes n - 1 when n >= 2 and -1
\* otherwise.
TerminalReadCountsLastSlot ==
    [][\A p \in Procs :
          CommitsTerminalRead(p) =>
              LET id == sid[p]
                  last == LastIndex(id)
                  before == At(Row(id).calls, last)
                  after == At(simulation_runs'[id].calls, last)
              IN /\ simulation_runs'[id].current_index = Cursor(id)
                 /\ simulation_runs'[id].grid_values = Row(id).grid_values
                 /\ Len(simulation_runs'[id].calls) = Len(Row(id).calls)
                 /\ \A i \in 0..(last - 1) :
                       At(simulation_runs'[id].calls, i) = At(Row(id).calls, i)
                 /\ after = IF IsNone(before) \/ Val(before) < 0 THEN before
                            ELSE IF Val(before) >= 2 THEN Some(Val(before) - 1)
                            ELSE Some(-1)
                 /\ SelectCalls(simulation_calls', id) = Records(id)]_vars

\* C12 witness: a read has finished on a one-value run created with threshold
\* 1, whose counter now stands at -1
TerminalReadWitness ==
    \E id \in DOMAIN simulation_runs : \E p \in Procs :
        /\ Finished(p, "current_value") /\ sid[p] = id
        /\ LastIndex(id) = 0
        /\ At(created[id], 0) = Some(1)
        /\ At(Row(id).calls, 0) = Some(-1)
        /\ Len(Records(id)) = 1

\* C13: a slot with no threshold never auto-advances. A current_value call
\* that commits while the cursor is on a slot whose threshold is absent returns
\* that slot's value and leaves the run (cursor, thresholds) and the call
\* history unchanged; the only step that moves the cursor off such a slot is
\* the commit of an advance.
NoThresholdNeverAdvances ==
    [][\A id \in DOMAIN simulation_runs :
          IsNone(At(Row(id).calls, Cursor(id))) =>
              /\ \A p \in Procs :
                    (CommitsRead(p) /\ sid[p] = id) =>
                        /\ result'[p].value = At(Row(id).grid_values, Cursor(id))
                        /\ simulation_runs'[id] = Row(id)
                        /\ SelectCalls(simulation_calls', id) = Records(id)
              /\ simulation_runs'[id].current_index # Cursor(id) =>
                    \E p \in Procs :
                        /\ op[p] = "advance" /\ sid[p] = id
                        /\ pc[p] = "adv_commit" /\ pc'[p] = "done"]_vars

\* C13 witness: both requests have read slot 0 of a two-value run created
\* without a threshold on it, and the cursor still stands on slot 0
NoThresholdNeverAdvancesWitness ==
    \E id \in DOMAIN simulation_runs :
        /\ LastIndex(id) = 1 /\ Cursor(id) = 0
        /\ IsNone(At(created[id], 0))
        /\ Len(Records(id)) = 1
        /\ \A p \in 1..2 :
              /\ Finished(p, "current_value") /\ sid[p] = id
              /\ result[p].value = At(Row(id).grid_values, 0)

\* C14: a threshold of 0 advances immediately. On a slot created with
\* threshold 0 that has a next slot, a current_value call that finds the cursor
\* there fails only through a store failure, and its commit is the first read
\* of the slot: it moves the cursor to the next slot and appends exactly the
\* call record of that slot (its index, its value).
ZeroThresholdAdvancesAtOnce ==
    [][\A p \in Procs :
          LET id == sid[p] IN
          (id \in DOMAIN simulation_runs /\ Cursor(id) < LastIndex(id)
             /\ At(created[id], Cursor(id)) = Some(0)) =>
              LET c == Cursor(id) IN
              /\ (pc[p] = "cv_fetch" /\ pc'[p] = "done") =>
                    result'[p].outcome = "StoreFailure"
              /\ CommitsRead(p) =>
                    LET recs == SelectCalls(simulation_calls', id) IN
                    /\ At(reads'[id], c) = 1
                    /\ simulation_runs'[id].current_index = c + 1
                    /\ Len(recs) = Len(Records(id)) + 1
                    /\ SubSeq(recs, 1, Len(Records(id))) = Records(id)
                    /\ recs[Len(recs)].idx = c + 1
                    /\ recs[Len(recs)].carbon_intensity =
                          At(Row(id).grid_values, c + 1)]_vars

\* C14 witness: the single read of a slot created with threshold 0 has moved
\* the cursor to slot 1 and written the second record
ZeroThresholdWitness ==
    \E id \in DOMAIN simulation_runs : \E p \in Procs :
        /\ Finished(p, "current_value") /\ sid[p] = id
        /\ At(created[id], 0) = Some(0)
        /\ At(reads[id], 0) = 1
        /\ Cursor(id) = 1
        /\ Len(Records(id)) = 2
        /\ Records(id)[2].idx = 1

\* a stats call of p answers in this step
StatsAnswers(p) == pc[p] = "stats_select" /\ pc'[p] = "done" /\ result'[p].outcome = "ok"

\* C15: with a strictly increasing clock, whatever advance and current_value
\* calls ran concurrently on the run, a stats call answers with the run's call
\* records in ascending order of timestamp, which is the order they were
\* inserted in: the records of the indices 0, 1, ..., cursor, in that order.
StatsInInsertionOrder ==
    [][\A p \in Procs :
          StatsAnswers(p) =>
              LET id == sid[p]
                  recs == Records(id)
                  rows == result'[p].rows
              IN /\ \A i, j \in 1..Len(rows) : i < j => rows[i].time < rows[j].time
                 /\ Len(recs) = Cursor(id) + 1
                 /\ \A i \in 1..Len(recs) : recs[i].idx = i - 1
                 /\ rows = StatsRows(id, recs)]_vars

\* C15, where it breaks: a stats call has answered for a run of three slots
\* whose cursor is at slot 2, and the record of slot 2 comes before the record
\* of slot 1 in the answer
StatsOutOfOrder ==
    \E id \in DOMAIN simulation_runs : \E p \in Procs :
        /\ Finished(p, "stats") /\ sid[p] = id
        /\ Cursor(id) = 2
        /\ Len(Records(id)) = 3
        /\ Len(result[p].rows) = 3
        /\ result[p].rows[2].time = Records(id)[3].called_at
        /\ result[p].rows[3].time = Records(id)[2].called_at
        /\ Records(id)[3].called_at < Records(id)[2].called_at

\* the request is about to fetch the run it names
AtFetch(p) == pc[p] \in {"cv_fetch", "adv_fetch", "stats_fetch"}

\* C16: unknown id. A current_value, advance or stats call whose id is not in
\* the store when the call fetches the run ends there with NotFound (or with
\* the failure of the SELECT itself), and neither that step nor the start of
\* such a call changes any run, threshold, cursor or call record.
UnknownIdNotFound ==
    [][\A p \in Procs :
          /\ (pc[p] = "idle" /\ AtFetch(p)') => UNCHANGED storeVars
          /\ (AtFetch(p) /\ sid[p] \notin DOMAIN simulation_runs /\ pc'[p] # pc[p]) =>
                /\ pc'[p] = "done"
                /\ result'[p].outcome \in {"NotFound", "StoreFailure"}
                /\ result'[p].raised_at = pc[p]
                /\ UNCHANGED storeVars
          /\ (AtFetch(p) /\ pc'[p] = "done" /\ result'[p].outcome = "NotFound") =>
                sid[p] \notin DOMAIN simulation_runs]_vars

\* C16 witness: with a run in the store, one request's current_value and the
\* other's stats on an id that is not in the store have both ended NotFound
UnknownIdWitness ==
    \E p, q \in Procs :
        /\ simulation_runs # <<>>
        /\ pc[p] = "done" /\ op[p] = "current_value"
        /\ pc[q] = "done" /\ op[q] = "stats"
        /\ sid[p] \notin DOMAIN simulation_runs
        /\ sid[q] \notin DOMAIN simulation_runs
        /\ result[p].outcome = "NotFound"
        /\ result[q].outcome = "NotFound"
        /\ \A id \in DOMAIN simulation_runs : Len(Records(id)) = Cursor(id) + 1

\* the shapes of a payload the specification speaks of
MalformedPair(values) ==
    \E i \in 1..Len(values) :
        values[i].kind = "pair" /\ Len(values[i].items) # 2
MixedShapes(values) ==
    /\ \E i \in 1..Len(values) : values[i].kind = "pair"
    /\ \E i \in 1..Len(values) : values[i].kind = "scalar"

\* the call of p ends in this step with the error `outcome`, no run and no
\* call record is stored or left to be stored, and no id is used up
Rejects(p, outcome) ==
    /\ pc'[p] = "done"
    /\ result'[p].outcome = outcome
    /\ tx'[p] = NoTx
    /\ UNCHANGED <<storeVars, next_uuid>>

\* a create of p, called as it stands or through POST /simulation, is decided
\* in this step
CreateDecided(p) ==
    pc[p] = "idle" /\ pc'[p] # "idle" /\ op'[p] \in {"create", "create_simulation"}

\* C17: create called with an empty sequence, or with a sequence holding a
\* pair that has not exactly 2 items, fails with InvalidInput; no run and no
\* call record is created.
CreateRejectsMalformed ==
    [][\A p \in Procs :
          CreateDecided(p) =>
              \A values \in Payloads :
                  ((values = <<>> \/ MalformedPair(values)) /\ CreateCall(p, values)) =>
                      Rejects(p, "InvalidInput")]_vars

\* C17 witness: one create was called with an empty sequence, the other with
\* a pair of 3 items; both have failed and the store is empty
CreateRejectsMalformedWitness ==
    \E p, q \in Procs :
        /\ pc[p] = "done" /\ op[p] = "create"
        /\ result[p].outcome = "InvalidInput" /\ result[p].detail = "no values"
        /\ pc[q] = "done" /\ op[q] = "create"
        /\ result[q].outcome = "InvalidInput" /\ result[q].detail = "pair arity"
        /\ simulation_runs = <<>>
        /\ simulation_calls = <<>>

InCreate(p) == pc[p] \in {"create_insert_run", "create_insert_call", "create_commit"}

\* C19: create normalizes its input position-wise and consumes no threshold.
\* For every accepted input, values[i] is the number of element i and
\* thresholds[i] is absent when element i is a bare number or a pair with a
\* null threshold and is n when element i is the pair (v, n); the run is
\* committed with exactly these sequences and cursor 0.
CreateNormalizes ==
    [][\A p \in Procs :
          /\ (CreateDecided(p) /\ pc'[p] = "create_insert_run") =>
                \A values \in Payloads :
                    CreateCall(p, values) =>
                        /\ Len(local'[p].values) = Len(values)
                        /\ Len(local'[p].calls) = Len(values)
                        /\ \A i \in 1..Len(values) :
                              /\ local'[p].values[i] = values[i].items[1]
                              /\ local'[p].calls[i] =
                                    IF values[i].kind = "scalar" THEN None
                                    ELSE values[i].items[2]
          /\ (InCreate(p) /\ InCreate(p)') => local'[p] = local[p]
          /\ (pc[p] = "create_commit" /\ pc'[p] = "done" /\ result'[p].outcome = "ok") =>
                /\ sid[p] \notin DOMAIN simulation_runs
                /\ simulation_runs'[sid[p]] =
                      [grid_values |-> local[p].values, calls |-> local[p].calls,
                       current_index |-> 0]]_vars

\* C19 witness: create has answered for [5, (10, 2)]: the run holds the values
\* [5, 10], the thresholds [absent, 2], cursor 0 and its first record
CreateNormalizesWitness ==
    \E p \in Procs :
        /\ Finished(p, "create")
        /\ result[p].value \in DOMAIN simulation_runs
        /\ Row(result[p].value) =
              [grid_values |-> <<5, 10>>, calls |-> <<None, Some(2)>>,
               current_index |-> 0]
        /\ Len(Records(result[p].value)) = 1

\* C20: operations on different runs never block each other. A create,
\* current_value or advance that has started and cannot take its next step is
\* a current_value or advance waiting for the row lock of the run it names,
\* held by another transaction; whatever locks are held on other runs, every
\* other started operation can take its next step, up to its end.
NoCrossRunBlocking ==
    \A p \in Procs :
        (pc[p] \notin {"idle", "done"} /\ ~ENABLED HandlerStep(p)) =>
            /\ pc[p] \in {"cv_fetch", "adv_fetch"}
            /\ sid[p] \in DOMAIN simulation_runs
            /\ row_lock[sid[p]] \notin {0, p}

\* C20 witness: one request stands before the commit of its advance on one
\* run while the other has just taken the row lock of another run in
\* current_value
NoCrossRunBlockingWitness ==
    \E p, q \in Procs :
        /\ sid[p] # sid[q]
        /\ pc[p] = "adv_commit" /\ row_lock[sid[p]] = p
        /\ pc[q] = "cv_update" /\ row_lock[sid[q]] = q
        /\ ENABLED HandlerStep(p)
        /\ ENABLED HandlerStep(q)

\* C21: the values of a run are immutable after creation. No step of a
\* current_value, advance or stats call (nor of any other request) changes
\* grid_values of a run that is in the store, whatever the interleaving, and
\* no uncommitted write of a run that is in the store carries other values.
ValuesImmutable ==
    [][\A id \in DOMAIN simulation_runs :
          /\ id \in DOMAIN simulation_runs'
          /\ simulation_runs'[id].grid_values = Row(id).grid_values
          /\ \A p \in Procs :
                id \in DOMAIN tx'[p].runs =>
                    tx'[p].runs[id].grid_values = Row(id).grid_values]_vars

\* C21 witness: a run of two different values has been advanced to its last
\* slot by one request and read there by the other, and holds the values its
\* two records were written from
ValuesImmutableWitness ==
    \E id \in DOMAIN simulation_runs : \E p, q \in Procs :
        /\ Finished(p, "advance") /\ sid[p] = id
        /\ Finished(q, "current_value") /\ sid[q] = id
        /\ Cursor(id) = 1
        /\ Row(id).grid_values = <<5, 10>>
        /\ Len(Records(id)) = 2
        /\ Records(id)[1].carbon_intensity = 5
        /\ Records(id)[2].carbon_intensity = 10

\* a is an initial part of b
IsPrefix(a, b) == Len(a) <= Len(b) /\ SubSeq(b, 1, Len(a)) = a

\* C22: the call history is append-only. In every step that is not a reset
\* the committed call records stay where they are with the same run id,
\* timestamp, value and index, and at most one record is added behind them;
\* a create, current_value or advance call never has more than one record to
\* commit, and what its commit adds is that record.
HistoryAppendOnly ==
    [][/\ ~Reset =>
             /\ IsPrefix(simulation_calls, simulation_calls')
             /\ Len(simulation_calls') <= Len(simulation_calls) + 1
       /\ \A p \in Procs :
             /\ Len(tx'[p].calls) <= 1
             /\ (pc[p] \in {"create_commit", "cv_commit", "adv_commit"}
                   /\ pc'[p] = "done" /\ result'[p].outcome = "ok") =>
                      simulation_calls' = simulation_calls \o tx[p].calls]_vars

\* C22 witness: after a reset that removed run 1, run 2 was created and
\* advanced: its creation record is still the first, the record of the
\* advance the second
HistoryAppendOnlyWitness ==
    \E p \in Procs :
        /\ DOMAIN simulation_runs = {2}
        /\ Finished(p, "advance") /\ sid[p] = 2
        /\ Len(simulation_calls) = 2
        /\ simulation_calls[1].simulation_id = 2 /\ simulation_calls[1].idx = 0
        /\ simulation_calls[2].simulation_id = 2 /\ simulation_calls[2].idx = 1

\* a statement of the stats call of p runs in this step
StatsStep(p) == op[p] = "stats" /\ pc[p] \in {"stats_fetch", "stats_select"} /\ pc'[p] # pc[p]

\* the rows stats answered with are the committed records of the run, each once
CommittedRows(rows, id) ==
    /\ Len(rows) = Len(Records(id))
    /\ \E calls \in OrderByCalledAt(Records(id)) :
          \A i \in 1..Len(rows) :
              /\ rows[i].time = calls[i].called_at
              /\ rows[i].carbon_intensity = calls[i].carbon_intensity

\* C23: stats is read-only and lock-free. A statement of a stats call changes
\* no run, threshold, cursor or call record, buffers no write and takes no row
\* lock; it can run whoever holds the row lock of the run; and the rows stats
\* answers with are the records committed when it selects them, none of them
\* a record another transaction has yet to commit.
StatsReadOnlyLockFree ==
    [][\A p \in Procs :
          /\ StatsStep(p) =>
                /\ UNCHANGED <<simulation_runs, simulation_calls, row_lock>>
                /\ tx'[p].runs = <<>> /\ tx'[p].calls = <<>>
                /\ (pc[p] = "stats_select" /\ result'[p].outcome = "ok") =>
                      CommittedRows(result'[p].rows, sid[p])
          /\ (pc'[p] = "stats_fetch" /\ sid'[p] \in DOMAIN simulation_runs') =>
                (ENABLED StatsFetch(p))'
          /\ pc'[p] = "stats_select" => (ENABLED StatsSelect(p))']_vars

\* C23 witness: stats has answered with the single committed record of a run
\* whose row lock the other request holds, with the record of its advance
\* not yet committed
StatsReadOnlyLockFreeWitness ==
    \E p, q \in Procs :
        /\ Finished(p, "stats")
        /\ sid[p] \in DOMAIN simulation_runs
        /\ row_lock[sid[p]] = q
        /\ pc[q] = "adv_commit"
        /\ Len(tx[q].calls) = 1
        /\ Len(Records(sid[p])) = 1
        /\ Len(result[p].rows) = 1

\* the current_value call of p commits in this step and moves the cursor of
\* its run off the slot it read
AutoAdvances(p) ==
    /\ CommitsRead(p)
    /\ simulation_runs'[sid[p]].current_index = Cursor(sid[p]) + 1

\* C29 (as claimed): whenever a current_value call auto-advances the cursor
\* off slot i, the counter stored for slot i after that call is the exhausted
\* sentinel -1.
AutoAdvancePinsSentinel ==
    [][\A p \in Procs :
          AutoAdvances(p) =>
              At(simulation_runs'[sid[p]].calls, Cursor(sid[p])) = Some(-1)]_vars

\* C29 (amended): whenever a current_value call auto-advances the cursor off
\* slot i, the counter stored for slot i after that call is the counter the
\* call found, less one: 0 when the slot was created with a threshold N >= 1,
\* and -1 only when it was created with threshold 0.
AutoAdvanceStoresDecrement ==
    [][\A p \in Procs :
          AutoAdvances(p) =>
              LET id == sid[p]
                  i == Cursor(id)
                  N == Val(At(created[id], i))
                  after == At(simulation_runs'[id].calls, i)
              IN /\ ~IsNone(At(Row(id).calls, i))
                 /\ after = Some(Val(At(Row(id).calls, i)) - 1)
                 /\ after = IF N >= 1 THEN Some(0) ELSE Some(-1)]_vars

\* C29 witness: a read has just moved the cursor off slot 0, created with
\* threshold 2 and read twice; the slot's stored counter is 0
AutoAdvanceStoresDecrementWitness ==
    \E id \in DOMAIN simulation_runs : \E p \in Procs :
        /\ Finished(p, "current_value") /\ sid[p] = id
        /\ At(created[id], 0) = Some(2)
        /\ At(reads[id], 0) = 2
        /\ Cursor(id) = 1
        /\ Len(Records(id)) = 2
        /\ result[p].value = At(Row(id).grid_values, 0)
        /\ At(Row(id).calls, 0) = Some(0)

\* C30: when the cursor is on the last slot and a current_value read takes
\* that slot's counter down to <= 0, the counter is stored as the exhausted
\* sentinel -1 and the cursor does not move; once the last slot's counter is
\* -1, every later read (and every other step) leaves it at -1.
LastSlotPinned ==
    [][/\ \A p \in Procs :
             (CommitsRead(p) /\ Cursor(sid[p]) = LastIndex(sid[p])) =>
                 LET id == sid[p]
                     c == At(Row(id).calls, Cursor(id))
                 IN (~IsNone(c) /\ Val(c) - 1 <= 0) =>
                        /\ At(simulation_runs'[id].calls, Cursor(id)) = Some(-1)
                        /\ simulation_runs'[id].current_index = Cursor(id)
       /\ \A id \in DOMAIN simulation_runs :
             (Cursor(id) = LastIndex(id) /\ At(Row(id).calls, Cursor(id)) = Some(-1)) =>
                 /\ simulation_runs'[id].current_index = Cursor(id)
                 /\ At(simulation_runs'[id].calls, Cursor(id)) = Some(-1)]_vars

\* C30 witness: the run [(5, 2), (10, 1)] after its third read, which answered
\* 10: the cursor is on the last slot and thresholds[1] is -1
LastSlotPinnedWitness ==
    \E id \in DOMAIN simulation_runs : \E p \in Procs :
        /\ Finished(p, "current_value") /\ sid[p] = id
        /\ created[id] = <<Some(2), Some(1)>>
        /\ Row(id).grid_values = <<5, 10>>
        /\ At(reads[id], 0) = 2
        /\ Cursor(id) = 1
        /\ result[p].value = 10
        /\ At(Row(id).calls, 1) = Some(-1)

\* the engine call of p ends in this step
Ends(p) == pc[p] # "done" /\ pc'[p] = "done"

InRange == {i \in 1..Len(data) : start_time <= data[i] /\ data[i] < end_time}

\* C25: filter_strict returns, for every data list and every start_time and
\* end_time, exactly the points p with start_time <= p.time < end_time, each
\* once and in their input order; empty input or no point in the range gives
\* the empty list.
FilterStrictExact ==
    called = "filter_strict" =>
        /\ {results[k] : k \in 1..Len(results)} = InRange
        /\ \A k, l \in 1..Len(results) : k < l => results[k] < results[l]
        /\ (data = <<>> \/ InRange = {}) => results = <<>>

\* C25 witness: of three points handed in out of time order, the first and
\* the last are in the range and are returned in that order
FilterStrictExactWitness ==
    /\ called = "filter_strict"
    /\ data = <<2, 0, 1>>
    /\ start_time = 1 /\ end_time = 3
    /\ results = <<1, 3>>

\* what C26 says of the returned list
BracketsRange ==
    LET before == {i \in 1..Len(data) : data[i] < start_time}
        after == {i \in 1..Len(data) : data[i] >= end_time}
        b == IF before = {} THEN 0 ELSE 1
        a == IF after = {} THEN 0 ELSE 1
        n == Len(results)
    IN /\ n = b + Cardinality(InRange) + a
       /\ before # {} =>
             /\ results[1] \in before
             /\ \A i \in before : data[i] <= data[results[1]]
       /\ {results[k] : k \in (b + 1)..(n - a)} = InRange
       /\ after # {} =>
             /\ results[n] \in after
             /\ \A i \in after : data[results[n]] <= data[i]
       /\ \A k, l \in 1..n : k < l => data[results[k]] <= data[results[l]]
       /\ data = <<>> => results = <<>>

\* C26 (as claimed): filter_with_interpolation returns, for every (possibly
\* unsorted) data list and every two times, in ascending time order: the
\* latest point strictly before start_time if one exists, then every point
\* with start_time <= time < end_time, then the earliest point at or after
\* end_time if one exists, and nothing else; empty input gives the empty list.
InterpolationBrackets ==
    called = "filter_with_interpolation" => BracketsRange

\* C26 (amended): the same, for every range with start_time <= end_time.
InterpolationBracketsOrderedRange ==
    (called = "filter_with_interpolation" /\ start_time <= end_time) =>
        BracketsRange

\* C26 witness: of three points handed in out of time order, the one before
\* the range, the one in it and the one behind it are returned by time
InterpolationBracketsWitness ==
    /\ called = "filter_with_interpolation"
    /\ data = <<2, 0, 1>>
    /\ start_time = 1 /\ end_time = 2
    /\ results = <<2, 3, 1>>

\* source k (0-based) of the configuration passes the region and provider
\* filters of this iteration and has a registered provider
Fetchable(k) ==
    ~Skipped(At(sources, k), cron.specific_region, cron.specific_provider,
             cron.providers)

\* the loop of this iteration has come to source k and worked on it
Reached(k) == k < cron.i \/ (cron.pc = "raised" /\ k = cron.i)

WorksOnSource ==
    /\ cron.pc = "sources"
    /\ cron'.pc \in {"sources", "raised"}
    /\ cron' # cron
    /\ Fetchable(cron.i)

\* the recorded last run of the source the loop stands at is less than its
\* update_iterval before now
IntervalNotElapsed ==
    LET source == At(sources, cron.i)
        name == ProviderDbName(source)
    IN /\ name \in DOMAIN last_cron_run
       /\ now - last_cron_run[name] < source.update_iterval

\* C28: run_cron honours a per-source update interval.  A source whose last
\* recorded run is less than update_iterval seconds before now is skipped (no
\* provider call, no commit); a source whose interval has elapsed is fetched
\* and its recorded last-run time becomes strictly later; a run forced with
\* specific_region fetches the source even when the interval has not elapsed.
UpdateIntervalHonoured ==
    [][WorksOnSource =>
          LET name == ProviderDbName(At(sources, cron.i))
              forced == ~IsNone(cron.specific_region)
              fetched == At(calls_made', cron.i) # NoCalls
          IN /\ (IntervalNotElapsed /\ ~forced) =>
                   /\ ~fetched
                   /\ commits' = commits
             /\ (~IntervalNotElapsed /\ name \in DOMAIN last_cron_run) =>
                   /\ fetched
                   /\ name \in DOMAIN last_cron_run'
                   /\ last_cron_run'[name] > last_cron_run[name]
             /\ forced => fetched]_vars

\* C28 witness: a source whose last run is recorded at the time the iteration
\* runs, with an update_iterval of 2, has been fetched and committed by a run
\* that was not forced
UpdateIntervalIgnored ==
    /\ cron.pc = "returned"
    /\ IsNone(cron.specific_region)
    /\ Len(sources) = 1
    /\ At(sources, 0).update_iterval = 2
    /\ ProviderDbName(At(sources, 0)) \in DOMAIN last_cron_run
    /\ last_cron_run[ProviderDbName(At(sources, 0))] = now
    /\ At(calls_made, 0) # NoCalls
    /\ commits = 1

\* an engine call of p ends with an exception in this step
Raises(p) ==
    /\ pc[p] # "done"
    /\ pc'[p] = "done"
    /\ op'[p] \in {"create", "current_value", "advance", "stats"}
    /\ result'[p].outcome # "ok"

\* the payloads create rejects: the empty one and those with a malformed pair
InvalidPayloads == {values \in Payloads : values = <<>> \/ ~SplitOk(values)}

\* the call of p meets a failure in this step: the run it fetches is not in
\* the store, or the payload of its create is empty or has a malformed pair
MeetsFailure(p) ==
    \/ /\ pc[p] \in {"cv_fetch", "adv_fetch", "stats_fetch"}
       /\ sid[p] \notin DOMAIN simulation_runs
       /\ pc'[p] # pc[p]
    \/ /\ pc[p] = "idle"
       /\ op'[p] = "create"
       /\ \E values \in InvalidPayloads : CreateCall(p, values)

TransactionReleased ==
    \A p \in Procs :
        (pc[p] = "done" /\ op[p] \in {"create", "current_value", "advance"}) =>
            /\ ~tx[p].open
            /\ \A r \in RunIds : row_lock[r] # p

\* C32, the divergence: an advance on a run at its last index has returned
\* (line 191) with its transaction open and the row lock of the run held,
\* and a read of the same run by another request waits for that lock
LockHeldAfterAdvance ==
    \E p, q \in Procs : \E id \in DOMAIN simulation_runs :
        /\ Finished(p, "advance") /\ sid[p] = id
        /\ Cursor(id) = LastIndex(id)
        /\ tx[p].open
        /\ row_lock[id] = p
        /\ pc[q] = "cv_fetch" /\ sid[q] = id
        /\ ~ENABLED CurrentValueFetch(q)

\* C33: threshold counters only count down and stay in range. For every run
\* and every slot i, the stored counter is absent exactly if it was absent at
\* creation, otherwise it is an integer between -1 and its value at creation,
\* and from one state to the next it never increases; runs stay in the store.
CountersCountDown ==
    /\ [](\A id \in DOMAIN simulation_runs :
             \A i \in 0..LastIndex(id) :
                 LET c == At(Row(id).calls, i)
                     c0 == At(created[id], i)
                 IN /\ IsNone(c) <=> IsNone(c0)
                    /\ ~IsNone(c) => (-1 <= Val(c) /\ Val(c) <= Val(c0)))
    /\ [][\A id \in DOMAIN simulation_runs :
             /\ id \in DOMAIN simulation_runs'
             /\ \A i \in 0..LastIndex(id) :
                   LET c == At(Row(id).calls, i)
                       d == At(simulation_runs'[id].calls, i)
                   IN ~IsNone(c) => (~IsNone(d) /\ Val(d) <= Val(c))]_vars

\* C33 witness: a run created with the counters 2 and 1 whose first slot was
\* counted down to 0 by two reads and whose last slot was pinned to -1 by a
\* third one
CountersCountDownWitness ==
    \E id \in DOMAIN simulation_runs :
        /\ created[id] = <<Some(2), Some(1)>>
        /\ Row(id).calls = <<Some(0), Some(-1)>>
        /\ At(reads[id], 0) = 2
        /\ Cursor(id) = 1

\* C34: a current_value call changes at most the counter of the slot the
\* cursor was on before the call. The run it commits is the one it locked, and
\* in every step of the call the counters of all other slots of the run, those
\* passed and those not yet reached, are after the step what they were before.
ReadTouchesCurrentSlotOnly ==
    [][\A p \in Procs :
          (op[p] = "current_value" /\ pc'[p] # pc[p]
             /\ sid[p] \in DOMAIN simulation_runs) =>
              LET id == sid[p] IN
              /\ CommitsRead(p) => snap[p].run[1] = Row(id)
              /\ id \in DOMAIN simulation_runs'
              /\ \A i \in 0..LastIndex(id) :
                    i # Cursor(id) =>
                        At(simulation_runs'[id].calls, i) = At(Row(id).calls, i)]_vars

\* C34 witness: on a run created with the counters 1 and 2 a read has moved
\* the cursor to slot 1 and a second read has counted slot 1 down to 1, the
\* counter of the slot passed still 0
ReadTouchesCurrentSlotOnlyWitness ==
    \E id \in DOMAIN simulation_runs : \E p \in Procs :
        /\ created[id] = <<Some(1), Some(2)>>
        /\ Row(id).calls = <<Some(0), Some(1)>>
        /\ Cursor(id) = 1
        /\ Finished(p, "current_value") /\ sid[p] = id

\* an advance call of p commits in this step
CommitsAdvance(p) == pc[p] = "adv_commit" /\ pc'[p] = "done" /\ result'[p].outcome = "ok"

RECURSIVE SumTo(_, _)
SumTo(f, k) == IF k = 0 THEN 0 ELSE f[k] + SumTo(f, k - 1)

\* the reads committed on the slots before the last one, and the reads it
\* takes to leave them all: the sum of max(threshold, 1)
ReadsMade(id) == SumTo(reads[id], LastIndex(id))
ReadsNeeded(id) ==
    SumTo([i \in 1..Len(created[id]) |->
              IF IsNone(created[id][i]) THEN 0 ELSE Max(Val(created[id][i]), 1)],
          LastIndex(id))

\* C36: progress to the terminal state. For a run whose slots before the last
\* all have a non-negative threshold, read again and again with no failure and
\* no advance: the cursor eventually stands on len(values)-1, and it does so
\* exactly when the reads made on the run are the sum over the slots before
\* the last of max(threshold, 1), never with fewer and never with more.
ReadsReachTerminal ==
    /\ [](\A id \in DOMAIN simulation_runs :
             /\ ReadsMade(id) <= ReadsNeeded(id)
             /\ (Cursor(id) = LastIndex(id)) <=> (ReadsMade(id) = ReadsNeeded(id)))
    /\ \A id \in RunIds :
          (id \in DOMAIN simulation_runs)
             ~> (id \in DOMAIN simulation_runs /\ Cursor(id) = LastIndex(id))

\* C36 witness: a run created with the thresholds 2 and 0 before its last slot
\* stands on the last slot after 2 + 1 reads
ReadsReachTerminalWitness ==
    \E id \in DOMAIN simulation_runs :
        /\ At(created[id], 0) = Some(2)
        /\ At(created[id], 1) = Some(0)
        /\ LastIndex(id) = 2
        /\ Cursor(id) = 2
        /\ ReadsMade(id) = 3
        /\ At(reads[id], 0) = 2 /\ At(reads[id], 1) = 1

\* C37: run isolation. A step of a create, current_value or advance call on
\* run A leaves every other run B as it was: B is in the store after the step
\* exactly if it was before, with the same cursor, thresholds and values and
\* the same call records; and the call records the step appends carry the id
\* of A only.
RunIsolation ==
    [][\A p \in Procs :
          (pc'[p] # pc[p] /\ op'[p] \in {"create", "current_value", "advance"}) =>
              LET A == sid'[p] IN
              /\ \A B \in RunIds \ {A} :
                    /\ (B \in DOMAIN simulation_runs') <=> (B \in DOMAIN simulation_runs)
                    /\ B \in DOMAIN simulation_runs => simulation_runs'[B] = Row(B)
                    /\ SelectCalls(simulation_calls', B) = Records(B)
              /\ IsPrefix(simulation_calls, simulation_calls')
              /\ \A k \in (Len(simulation_calls) + 1)..Len(simulation_calls') :
                    simulation_calls'[k].simulation_id = A]_vars

\* C37 witness: two runs are in the store; one has been moved to slot 1 by a
\* finished call and has two records, the other still stands on slot 0 with
\* its creation record alone
RunIsolationWitness ==
    \E A, B \in DOMAIN simulation_runs : \E p \in Procs :
        /\ A # B
        /\ pc[p] = "done" /\ sid[p] = A /\ result[p].outcome = "ok"
        /\ op[p] \in {"current_value", "advance"}
        /\ Cursor(A) = 1 /\ Len(Records(A)) = 2
        /\ Cursor(B) = 0 /\ Len(Records(B)) = 1

\* the rows of carbon for one (time, region, provider)
Measurements(time, region, provider) ==
    {r \in BagToSet(carbon) : r.time = time /\ r.region = region /\ r.provider = provider}

\* C38: ingestion never duplicates a measurement. After any number of
\* run_cron iterations, also when the cron job and a request with update=true
\* run run_cron at the same time, the carbon table holds at most one row for
\* each (time, region, provider).
NoDuplicateMeasurement ==
    \A r \in BagToSet(carbon) :
        /\ CopiesIn(r, carbon) = 1
        /\ Measurements(r.time, r.region, r.provider) = {r}

\* C38, the divergence: the cron job and a request with update=true have both
\* returned, each having inserted the measurement of time 1 for region DE
\* while the other's was not yet committed, and the table holds it twice
DuplicateMeasurement ==
    \E r \in BagToSet(carbon) :
        /\ r.time = 1 /\ r.region = "DE"
        /\ CopiesIn(r, carbon) = 2
        /\ cron.pc = "returned"
        /\ update.pc = "returned"

\* the service loop has ended
ServiceEnded == service.pc \in {"exited", "crashed"}

\* in this step run_cron is called
RunCronStarts == cron'.iteration # cron.iteration

\* once the event is set, a wait that is under way ends with no further
\* second slept
WaitEndsAtOnce ==
    (shutdown_event /\ service.pc = "wait" /\ service' # service) =>
        /\ service'.pc = "exited"
        /\ service'.waited = service.waited

\* C39 (as claimed): once a shutdown signal has been handled, no run_cron
\* iteration starts, the wait between iterations ends without sleeping the
\* remaining interval, and the loop eventually terminates.
ShutdownAfterCurrentIteration ==
    /\ [][/\ shutdown_event => ~RunCronStarts
          /\ WaitEndsAtOnce]_vars
    /\ shutdown_event ~> ServiceEnded

\* C39 (amended): once a shutdown signal has been handled, the loop test
\* admits no further iteration, so that the only run_cron call that can start
\* after the signal is the one the test had admitted before it; the wait
\* between iterations ends without sleeping the remaining interval; the event
\* stays set; and the loop eventually ends, by leaving the loop or, when
\* run_cron raises, with that exception.
ShutdownAfterAdmittedIteration ==
    /\ [][/\ shutdown_event =>
                /\ shutdown_event'
                /\ service.pc = "test" => service'.pc \in {"test", "exited"}
                /\ RunCronStarts =>
                      /\ service.pc = "run_cron"
                      /\ cron.iteration = service.iterations
                /\ service'.iterations <= cron'.iteration
          /\ WaitEndsAtOnce]_vars
    /\ shutdown_event ~> ServiceEnded

\* C39 witness: the signal came during the wait after the first iteration and
\* the loop was left with seconds of the interval unslept
ShutdownWitness ==
    /\ shutdown_event
    /\ service.pc = "exited"
    /\ service.iterations = 1
    /\ cron.iteration = 1
    /\ service.waited = 1
    /\ service.interval_seconds = 2

====
